---- MODULE Spec2Model ----
(***************************************************************************)
(* A model of exchange_observer: the price store and its arbitrage scan    *)
(* (core/price_data_store.py), the lifecycle of ExchangeDataManager        *)
(* (core/exchange_data_manager.py) and the websocket session supervisor of *)
(* a venue client (exchanges/base_client.py).                              *)
(***************************************************************************)
EXTENDS Integers, Sequences, FiniteSets, TLC

(***************************************************************************)
(* Bounds of the model.                                                    *)
(***************************************************************************)
MaxClock == 1

(***************************************************************************)
(* Values.                                                                 *)
(***************************************************************************)
\* Exchange(StrEnum) without NONE: the venues a client exists for.
Exchange == {"Binance", "Bybit", "Gate.io"}

\* Symbols quoted by the venues, and the order groupby("symbol") sorts them in.
SortedSymbols == <<"BTCUSDT", "ETHUSDT">>
Symbols == {SortedSymbols[i] : i \in 1..Len(SortedSymbols)}

\* A PriceData field left at its default None, and the NaN a float column of
\* the frame holds once None has been assigned to it.  Both are outside the
\* range of prices and quantities.
None == -1
NaN == -2

\* Prices a venue may quote.
Prices == {4, 5, 8}
WidePrices == {4, 5}

\* PriceData as a venue client delivers it: each side of the book is absent
\* (None for its price and its quantity) or present with a price and a size.
Quote(exchange, symbol, bid, ask) ==
    [exchange |-> exchange, symbol |-> symbol,
     bid_price |-> bid[1], bid_quantity |-> bid[2],
     ask_price |-> ask[1], ask_quantity |-> ask[2]]

Absent == <<None, None>>

\* Three venues quoting one symbol at two price levels.
WideQuotes ==
    {Quote(e, SortedSymbols[1], b, a) :
        e \in Exchange,
        b \in {Absent} \cup {<<p, 1>> : p \in WidePrices},
        a \in {Absent} \cup {<<p, 1>> : p \in WidePrices}}

\* Two venues quoting one symbol at three price levels.
PairQuotes ==
    {Quote(e, SortedSymbols[1], b, a) :
        e \in {"Binance", "Bybit"},
        b \in {Absent} \cup {<<p, 1>> : p \in Prices},
        a \in {Absent} \cup {<<p, 1>> : p \in Prices}}

\* Three keys, two of one venue and two of one symbol, with sizes that vary.
StoreKeys == {<<"Binance", "BTCUSDT">>, <<"Bybit", "BTCUSDT">>, <<"Binance", "ETHUSDT">>}
StoreQuotes ==
    {Quote(k[1], k[2], b, a) :
        k \in StoreKeys,
        b \in {Absent, <<4, 1>>, <<5, 2>>},
        a \in {Absent, <<5, 2>>}}

\* Two venues quoting one symbol with both sides present, at a price or at
\* zero: float() of PriceData.update takes "0" as it takes any number.
ZeroPrices == {0, 4}
ZeroQuotes ==
    {Quote(e, SortedSymbols[1], <<b, 1>>, <<a, 1>>) :
        e \in {"Binance", "Bybit"}, b \in ZeroPrices, a \in ZeroPrices}

\* Thresholds passed to the scan: min_profit_percent as an exact fraction
\* num/den (0.1 is the default), max_data_age_seconds in seconds.
DefaultMinProfit == [num |-> 1, den |-> 10]
MinProfits == {DefaultMinProfit, [num |-> 3, den |-> 10]}
MaxAges == {0}

\* The constant the scan declares for the upper profit bound: 0.5 = 1/2.
MAX_ACCEPTABLE_PROFIT_PERCENT == [num |-> 1, den |-> 2]

VARIABLES
    df,       \* PriceDataStore.df: the rows of the frame, in insertion order
    clock,    \* datetime.now(timezone.utc), in seconds
    call,     \* the latest call on the store: its name, arguments, result
    written,  \* for every key ever updated, the PriceData of its latest update
    manager,      \* ExchangeDataManager: is_running and the state of arbitrage_task
    managerCall,  \* the start() or stop() of the manager that is in flight
    clients,      \* ExchangeDataManager.clients: the state of every venue client
    client,       \* BaseExchangeClient: the fields of one venue client
    loop,         \* the task of websocket_loop: where it is suspended
    ping,         \* the task of ping_loop: where it is suspended
    socket,       \* the connection of the current session
    listener,     \* what the listener of the client has been told
    clientCall,   \* the stop() of the client that is in flight
    engine,       \* ArbitrageEngine: its fields, its task and its callback
    adapter,      \* a venue adapter: the frames it sends and the quotes it emits
    gui,          \* the window, its controller and the worker of the application
    overlap,      \* a client whose calls of start() and stop() overlap
    race,         \* a manager whose calls of start() and stop() overlap
    worker,       \* AsyncWorker: its thread, its loop and the thread that calls it
    delivery      \* the tasks that deliver the quotes of one session to the store

storeVars == <<df, clock, call, written>>
managerVars == <<manager, managerCall, clients>>
clientVars == <<client, loop, ping, socket, listener, clientCall>>
raceVars == <<overlap, race, worker, delivery>>
otherVars == <<engine, adapter, gui, raceVars>>
vars == <<df, clock, call, written, manager, managerCall, clients,
          client, loop, ping, socket, listener, clientCall, engine,
          adapter, gui, overlap, race, worker, delivery>>

NoCall == [op |-> "none", arg |-> <<>>, ret |-> <<>>]

(***************************************************************************)
(* PriceDataStore                                                          *)
(***************************************************************************)
\* Position of the row with index (exchange, symbol) in d, 0 when absent.
RowIndex(d, exchange, symbol) ==
    LET hits == {i \in 1..Len(d) : d[i].exchange = exchange /\ d[i].symbol = symbol}
    IN  IF hits = {} THEN 0 ELSE CHOOSE i \in hits : \A j \in hits : i <= j

\* Assignment of a PriceData field to a float column: None is stored as NaN.
ToFloat(v) == IF v = None THEN NaN ELSE v

\* The row update_price_data writes for price_data at time now.
RowOf(price_data, now) ==
    [exchange      |-> price_data.exchange,
     symbol        |-> price_data.symbol,
     bid_price     |-> ToFloat(price_data.bid_price),
     bid_quantity  |-> ToFloat(price_data.bid_quantity),
     ask_price     |-> ToFloat(price_data.ask_price),
     ask_quantity  |-> ToFloat(price_data.ask_quantity),
     timestamp_utc |-> now]

\* Upsert that appends a row on every update, also for a key already stored.
Upsert_Append(d, price_data, now) == Append(d, RowOf(price_data, now))

\* df.loc[idx, col] = value for every column: the row of idx is overwritten,
\* or appended when idx is new.
Upsert(d, price_data, now) ==
    LET i == RowIndex(d, price_data.exchange, price_data.symbol)
    IN  IF i = 0 THEN Append(d, RowOf(price_data, now))
                 ELSE [d EXCEPT ![i] = RowOf(price_data, now)]

update_price_data(price_data) ==
    /\ df' = Upsert(df, price_data, clock)
    /\ call' = [op |-> "update", arg |-> price_data, ret |-> <<>>]
    /\ written' = [k \in DOMAIN written \cup {<<price_data.exchange, price_data.symbol>>} |->
                       IF k = <<price_data.exchange, price_data.symbol>>
                       THEN price_data ELSE written[k]]
    /\ UNCHANGED clock

\* The PriceData get_data_for_symbol builds from the row, None on KeyError.
GetResult(d, exchange, symbol) ==
    LET i == RowIndex(d, exchange, symbol)
    IN  IF i = 0 THEN <<>>
        ELSE <<[exchange     |-> exchange,
                symbol       |-> symbol,
                bid_price    |-> d[i].bid_price,
                bid_quantity |-> d[i].bid_quantity,
                ask_price    |-> d[i].ask_price,
                ask_quantity |-> d[i].ask_quantity]>>

get_data_for_symbol(exchange, symbol) ==
    /\ call' = [op |-> "get", arg |-> <<exchange, symbol>>,
                ret |-> GetResult(df, exchange, symbol)]
    /\ UNCHANGED <<df, clock, written>>

(***************************************************************************)
(* PriceDataStore.find_arbitrage_opportunities                             *)
(***************************************************************************)
\* FreshRows without the age filter.
FreshRows_All(d, now, max_data_age_seconds) == d

\* df_temp[current_utc_time - timestamp_utc <= timedelta(seconds=max_age)]
FreshRows(d, now, max_data_age_seconds) ==
    SelectSeq(d, LAMBDA r : now - r.timestamp_utc <= max_data_age_seconds)

\* The rows of one symbol, in frame order: one group of groupby("symbol").
Group(d, symbol) == SelectSeq(d, LAMBDA r : r.symbol = symbol)

\* DropNa that drops only the rows lacking a bid price.
DropNa_BidOnly(group) == SelectSeq(group, LAMBDA r : r.bid_price # NaN)

\* group.dropna(subset=["bid_price", "ask_price"])
DropNa(group) == SelectSeq(group, LAMBDA r : r.bid_price # NaN /\ r.ask_price # NaN)

\* idxmin of ask_price: the first row holding the minimum.
IdxMinAsk(g) ==
    CHOOSE i \in 1..Len(g) :
        /\ \A j \in 1..Len(g) : g[i].ask_price <= g[j].ask_price
        /\ \A j \in 1..(i - 1) : g[j].ask_price > g[i].ask_price

\* IdxMaxBid that takes the last row holding the maximum.
IdxMaxBid_Last(g) ==
    CHOOSE i \in 1..Len(g) :
        /\ \A j \in 1..Len(g) : g[i].bid_price >= g[j].bid_price
        /\ \A j \in (i + 1)..Len(g) : g[j].bid_price < g[i].bid_price

\* idxmax of bid_price: the first row holding the maximum.
IdxMaxBid(g) ==
    CHOOSE i \in 1..Len(g) :
        /\ \A j \in 1..Len(g) : g[i].bid_price >= g[j].bid_price
        /\ \A j \in 1..(i - 1) : g[j].bid_price < g[i].bid_price

\* (sell_price - buy_price) / buy_price in float arithmetic, kept as the
\* exact fraction num/den; den = 0 stands for the division by zero, which
\* numpy evaluates to +inf (num > 0), nan (num = 0) or -inf (num < 0).
Profit(buy_price, sell_price) == [num |-> sell_price - buy_price, den |-> buy_price]

\* profit >= bound for a finite bound: false for nan and -inf, true for +inf.
ProfitGE(profit, bound) ==
    IF profit.den > 0 THEN profit.num * bound.den >= bound.num * profit.den
                      ELSE profit.num > 0

\* profit_percent * 100
Times100(profit) == [num |-> profit.num * 100, den |-> profit.den]

\* ProfitPasses that compares the profit after it was scaled to percent.
ProfitPasses_Scaled(profit_percent, min_profit_percent) ==
    ProfitGE(Times100(profit_percent), min_profit_percent)

\* The condition under which the scan appends an opportunity.
ProfitPasses(profit_percent, min_profit_percent) ==
    ProfitGE(profit_percent, min_profit_percent)

\* SameVenue that never skips a pair.
SameVenue_Never(best_ask_row, best_bid_row) == FALSE

\* best_ask_row["exchange"] == best_bid_row["exchange"]: the pair is skipped.
SameVenue(best_ask_row, best_bid_row) == best_ask_row.exchange = best_bid_row.exchange

\* The body of the loop over the groups: the opportunities one symbol's
\* group of fresh rows contributes (none or one).
GroupOpportunities(symbol_name, group, min_profit_percent) ==
    IF Len(group) < 2 THEN <<>>
    ELSE LET valid_prices_group == DropNa(group)
         IN  IF Len(valid_prices_group) = 0 THEN <<>>
             ELSE LET best_ask_row == valid_prices_group[IdxMinAsk(valid_prices_group)]
                      best_bid_row == valid_prices_group[IdxMaxBid(valid_prices_group)]
                      buy_price == best_ask_row.ask_price
                      sell_price == best_bid_row.bid_price
                      profit_percent == Profit(buy_price, sell_price)
                  IN  IF SameVenue(best_ask_row, best_bid_row) THEN <<>>
                      ELSE IF ProfitPasses(profit_percent, min_profit_percent)
                           THEN <<[symbol            |-> symbol_name,
                                   buy_exchange      |-> best_ask_row.exchange,
                                   buy_price         |-> buy_price,
                                   sell_exchange     |-> best_bid_row.exchange,
                                   sell_price        |-> sell_price,
                                   profit_percent    |-> Times100(profit_percent),
                                   last_updated_buy  |-> best_ask_row.timestamp_utc,
                                   last_updated_sell |-> best_bid_row.timestamp_utc]>>
                           ELSE <<>>

\* The opportunities of the symbols SortedSymbols[i..], in groupby order.
RECURSIVE OpportunitiesFrom(_, _, _)
OpportunitiesFrom(i, fresh_data_df, min_profit_percent) ==
    IF i > Len(SortedSymbols) THEN <<>>
    ELSE GroupOpportunities(SortedSymbols[i], Group(fresh_data_df, SortedSymbols[i]),
                            min_profit_percent)
         \o OpportunitiesFrom(i + 1, fresh_data_df, min_profit_percent)

\* The rows of the frame find_arbitrage_opportunities returns.
Opportunities(d, now, min_profit_percent, max_data_age_seconds) ==
    OpportunitiesFrom(1, FreshRows(d, now, max_data_age_seconds), min_profit_percent)

\* The scan divides by a buy price of zero: some symbol has two fresh rows
\* or more, its best ask and its best bid are of different venues, and the
\* best ask is 0.
DividesByZero(d, now, max_data_age_seconds) ==
    \E i \in 1..Len(SortedSymbols) :
        LET group == Group(FreshRows(d, now, max_data_age_seconds), SortedSymbols[i])
            valid_prices_group == DropNa(group)
        IN  /\ Len(group) >= 2
            /\ Len(valid_prices_group) > 0
            /\ ~SameVenue(valid_prices_group[IdxMinAsk(valid_prices_group)],
                          valid_prices_group[IdxMaxBid(valid_prices_group)])
            /\ valid_prices_group[IdxMinAsk(valid_prices_group)].ask_price = 0

\* The scan returns its frame; a division by a buy price of zero gives inf
\* or nan when the prices read from the row are numpy floats and raises
\* ZeroDivisionError when they are floats of Python.
find_arbitrage_opportunities(min_profit_percent, max_data_age_seconds) ==
    /\ \/ call' = [op  |-> "scan",
                   arg |-> [min_profit_percent   |-> min_profit_percent,
                            max_data_age_seconds |-> max_data_age_seconds,
                            current_utc_time     |-> clock],
                   ret |-> Opportunities(df, clock, min_profit_percent,
                                         max_data_age_seconds)]
       \/ /\ DividesByZero(df, clock, max_data_age_seconds)
          /\ call' = [op  |-> "scan_raised",
                      arg |-> [min_profit_percent   |-> min_profit_percent,
                               max_data_age_seconds |-> max_data_age_seconds,
                               current_utc_time     |-> clock],
                      ret |-> <<>>]
    /\ UNCHANGED <<df, clock, written>>

\* The wall clock advances.
Tick ==
    /\ clock < MaxClock
    /\ clock' = clock + 1
    /\ call' = NoCall
    /\ UNCHANGED <<df, written>>
    /\ UNCHANGED <<managerVars, clientVars, otherVars>>

Scan(thresholds) ==
    \E min_profit_percent \in thresholds, max_data_age_seconds \in MaxAges :
        find_arbitrage_opportunities(min_profit_percent, max_data_age_seconds)

(***************************************************************************)
(* BaseExchangeClient                                                      *)
(*                                                                         *)
(* The tasks of the event loop run one at a time, each from one await to   *)
(* the next, so every action below is one such run.  A call of             *)
(* notify_listener is recorded when it is made: the callbacks run in the   *)
(* order of their calls.  cancel() of a task whose coroutine has neither a *)
(* handler for CancelledError nor a finally ends the task: it runs no      *)
(* statement of the coroutine again.  The task of websocket_loop has a     *)
(* finally, so its cancellation stays pending until its next turn.         *)
(***************************************************************************)
RECONNECT_MAX_DELAY_SECONDS == 120
RECONNECT_MAX_ATTEMPTS_PER_SESSION == 5

\* The consecutive failures of the dial that are followed.
MaxAttempt == 7

\* A task that will not run again.
TaskOver(task) == task \in {"none", "done", "cancelled"}

NoClientCall == [op |-> "none", pc |-> "none"]

Min(a, b) == IF a <= b THEN a ELSE b

\* The on_disconnected counted after one on_connected.
MaxEnds == 2

\* The on_error whose message reports the attempts to reconnect.
AttemptsError == "on_error: Failed to reconnect"

\* One callback reaches the listener, which was inside a session or not;
\* about tells the on_error of the attempts from the other errors; ends
\* counts the on_disconnected since the latest on_connected, -1 before the
\* first on_connected.
Notify(l, method_name) ==
    [open |-> IF method_name = "on_connected" THEN TRUE
              ELSE IF method_name = "on_disconnected" THEN FALSE
              ELSE l.open,
     ends |-> IF method_name = "on_connected" THEN 0
              ELSE IF method_name = "on_disconnected" /\ l.ends >= 0
                   THEN Min(l.ends + 1, MaxEnds)
              ELSE l.ends,
     trace |-> Append(l.trace,
                      [method |-> IF method_name = AttemptsError
                                  THEN "on_error" ELSE method_name,
                       about |-> IF method_name = AttemptsError
                                 THEN "attempts" ELSE "",
                       open |-> l.open]),
     run |-> l.run]

RECURSIVE Emit(_, _)
Emit(l, methods) ==
    IF methods = <<>> THEN l
    ELSE Emit(Notify(l, Head(methods)), Tail(methods))

\* The listener after the callbacks of one run of a task; its trace holds
\* the callbacks of the latest run that made any.
Callbacks(l, methods) ==
    IF methods = <<>> THEN l ELSE Emit([l EXCEPT !.trace = <<>>], methods)

\* A frame as the adapter reads it: whether it is JSON and of which type,
\* its op and success, its topic, the type of its data, the symbol in its
\* data ("" when missing), and the best levels of its order book.
Frame(json, op, success, topic, data, symbol, book) ==
    [json |-> json, op |-> op, success |-> success, topic |-> topic,
     data |-> data, symbol |-> symbol, book |-> book]

NoFrame == Frame("none", "", FALSE, "", "missing", "", "missing")

\* The symbols fetch_symbols has put into self.data.
KnownSymbols == {SortedSymbols[1]}

\* What a run of a task starts from; out collects its callbacks, message
\* is the frame it receives, last is the latest call of start() or stop()
\* and whether it returned at its guard, at is where the latest stop()
\* found the task of websocket_loop.
Run ==
    [client |-> client, loop |-> loop, ping |-> ping, socket |-> socket,
     call |-> clientCall.call, at |-> clientCall.at,
     last |-> clientCall.last, message |-> NoFrame, out |-> <<>>]

\* The effects of a run on the client.
CommitClient(r) ==
    /\ client' = r.client
    /\ loop' = r.loop
    /\ ping' = r.ping
    /\ socket' = r.socket
    /\ listener' = [Callbacks(listener, r.out) EXCEPT
                        !.run = [message |-> r.message, out |-> r.out]]
    /\ clientCall' = [call |-> r.call, at |-> r.at, last |-> r.last]

\* A run ends: its effects become the state.
Commit(r) ==
    /\ CommitClient(r)
    /\ UNCHANGED <<storeVars, managerVars, otherVars>>

\* close() of the connection: a close of this side is a normal closure.
Close(s) == IF s = "open" THEN "closed_ok" ELSE s

\* A start() without its guard.
start_Unguarded(r) ==
    [r EXCEPT !.client.is_running = TRUE,
              !.client.reconnect_attempt = 0,
              !.client.ping_task = "None",
              !.client.websocket_task = "task",
              !.loop = [pc |-> "created", cancel |-> FALSE, after |-> "return", delay |-> 0,
                                symbols |-> "unset"],
              !.last = IF r.client.is_running THEN "start_noop" ELSE "start"]

\* start(): nothing when running; otherwise the flag, the counter and the
\* task of websocket_loop, which has not run when start() returns.
start(r) ==
    IF r.client.is_running
    THEN [r EXCEPT !.last = "start_noop"]
    ELSE [r EXCEPT !.client.is_running = TRUE,
                   !.client.reconnect_attempt = 0,
                   !.client.ping_task = "None",
                   !.client.websocket_task = "task",
                   !.loop = [pc |-> "created", cancel |-> FALSE, after |-> "return", delay |-> 0,
                                symbols |-> "unset"],
                   !.last = "start"]

\* A call of start(), made when no call is in flight.
ClientStartCall ==
    /\ clientCall.call.op = "none"
    /\ Commit(start(Run))

\* The finally of run_websocket_session.
Finally(r) ==
    [r EXCEPT !.ping = IF r.client.ping_task = "task" /\ ~TaskOver(r.ping)
                       THEN "cancelled" ELSE @,
              !.client.ping_task = "None",
              !.client.websocket = "None"]

\* websocket_loop after its while: the report of the attempts, the flag,
\* the last on_disconnected; the task is done.
LoopExit(r) ==
    [r EXCEPT !.out = @ \o (IF r.client.reconnect_attempt > RECONNECT_MAX_ATTEMPTS_PER_SESSION
                            THEN <<AttemptsError>> ELSE <<>>)
                        \o <<"on_disconnected">>,
              !.client.is_running = FALSE,
              !.loop.pc = "done"]

\* A while of websocket_loop that gives up after the attempts allowed.
WhileRunning_Capped(r) ==
    IF r.client.is_running
       /\ r.client.reconnect_attempt <= RECONNECT_MAX_ATTEMPTS_PER_SESSION
    THEN [r EXCEPT !.client.websocket = "None", !.loop.pc = "dialing"]
    ELSE LoopExit(r)

\* The test of the while of websocket_loop and, when it passes, the entry
\* of run_websocket_session up to the dial.
WhileRunning(r) ==
    IF r.client.is_running
    THEN [r EXCEPT !.client.websocket = "None", !.loop.pc = "dialing"]
    ELSE LoopExit(r)

\* An apply_reconnect_delay whose delay has no upper limit.
apply_reconnect_delay_Uncapped(r) ==
    LET reconnect_attempt == r.client.reconnect_attempt + 1
    IN  [r EXCEPT !.client.reconnect_attempt = reconnect_attempt,
                  !.loop.delay = 2 ^ reconnect_attempt,
                  !.loop.pc = "backoff"]

\* apply_reconnect_delay up to its sleep: the counter is incremented, then
\* the delay is computed from it; delay is the seconds of the latest sleep.
apply_reconnect_delay(r) ==
    LET reconnect_attempt == r.client.reconnect_attempt + 1
    IN  [r EXCEPT !.client.reconnect_attempt = reconnect_attempt,
                  !.loop.delay = Min(2 ^ reconnect_attempt, RECONNECT_MAX_DELAY_SECONDS),
                  !.loop.pc = "backoff"]

\* websocket_loop after run_websocket_session has returned.
AfterSession(r) ==
    IF r.client.is_running
    THEN apply_reconnect_delay([r EXCEPT !.out = @ \o <<"on_disconnected">>])
    ELSE LoopExit(r)

\* run_websocket_session ends: by a return or a TimeoutError in silence, by
\* another exception with on_error, by CancelledError through every except;
\* the finally runs in each case, and CancelledError ends the task.
SessionEnd(r, how) ==
    LET t == Finally([r EXCEPT !.out = @ \o (IF how = "error"
                                             THEN <<"on_error">> ELSE <<>>)])
    IN  IF how = "cancelled"
        THEN [t EXCEPT !.loop.pc = "cancelled"]
        ELSE AfterSession(t)

\* The exit of the async with: it closes the connection and waits for the
\* closure when the connection is still open.
LeaveConnection(r, how) ==
    IF r.socket = "open"
    THEN [r EXCEPT !.socket = Close(@), !.loop.pc = "closing", !.loop.after = how]
    ELSE SessionEnd(r, how)

\* The test of the while of handle_message_loop, then the wait for a frame.
handle_message_loop(r) ==
    IF r.client.is_running /\ r.client.websocket # "None"
    THEN [r EXCEPT !.loop.pc = "streaming"]
    ELSE LeaveConnection(r, "return")

LoopRuns(pc) == loop.pc = pc /\ ~loop.cancel

\* The task of websocket_loop runs for the first time.
WebsocketLoopBegin ==
    /\ LoopRuns("created")
    /\ Commit(WhileRunning(Run))

\* A connect that keeps the counter of attempts.
Connected_NoReset(r) ==
    [r EXCEPT !.client.websocket = "ws",
              !.socket = "open",
              !.out = <<"on_connected">>,
              !.client.ping_task = "task",
              !.ping = "created",
              !.loop.symbols = "unset",
              !.loop.pc = "fetching"]

\* run_websocket_session with the connection made: on_connected, the
\* counter of attempts reset, the task of ping_loop, then fetch_symbols.
Connected(r) ==
    [r EXCEPT !.client.websocket = "ws",
              !.socket = "open",
              !.out = <<"on_connected">>,
              !.client.reconnect_attempt = 0,
              !.client.ping_task = "task",
              !.ping = "created",
              !.loop.symbols = "unset",
              !.loop.pc = "fetching"]

\* A dial whose connection is not announced to the listener.
Dial_Unannounced(outcome) ==
    /\ LoopRuns("dialing")
    /\ outcome # "ok" => client.reconnect_attempt < MaxAttempt
    /\ Commit(CASE outcome = "ok" -> [Connected(Run) EXCEPT !.out = <<>>]
                [] outcome = "timeout" -> SessionEnd(Run, "timeout")
                [] outcome = "refused" -> SessionEnd(Run, "error"))

\* The dial ends: with a connection, or with TimeoutError, or with an error
\* of the connection.
Dial(outcome) ==
    /\ LoopRuns("dialing")
    /\ outcome # "ok" => client.reconnect_attempt < MaxAttempt
    /\ Commit(CASE outcome = "ok" -> Connected(Run)
                [] outcome = "timeout" -> SessionEnd(Run, "timeout")
                [] outcome = "refused" -> SessionEnd(Run, "error"))

\* A session that subscribes whatever fetch_symbols returned.
FetchSymbols_Proceeds(symbols) ==
    /\ LoopRuns("fetching")
    /\ Commit([Run EXCEPT !.loop.symbols = symbols, !.loop.pc = "subscribing"])

\* fetch_symbols returns: without symbols the session ends with on_error.
FetchSymbols(symbols) ==
    /\ LoopRuns("fetching")
    /\ LET r == [Run EXCEPT !.loop.symbols = symbols]
       IN  Commit(IF symbols = "none"
                  THEN LeaveConnection([r EXCEPT !.out = <<"on_error">>], "return")
                  ELSE [r EXCEPT !.loop.pc = "subscribing"])

\* subscribe_symbols returns, having reported a send that failed, and
\* handle_message_loop begins.
SubscribeSymbols ==
    /\ LoopRuns("subscribing")
    /\ Commit(handle_message_loop(
           [Run EXCEPT !.out = IF socket = "open" THEN <<>> ELSE <<"on_error">>]))

\* process_message of the adapter: the callbacks it makes for a frame.
\* json.loads rejects what is not JSON; .get fails on what is not an
\* object; the answer to a subscribe is reported when it is not a success;
\* a frame with topic and data gives quotes when its symbol is present and
\* known, an order book without its levels raises KeyError, a price that
\* is not a number is skipped by PriceData.update; all else is ignored.
process_message(frame) ==
    CASE frame.json = "invalid" -> <<"on_error">>
      [] frame.json = "array" -> <<"on_error">>
      [] frame.op = "subscribe" ->
             IF frame.success THEN <<>> ELSE <<"on_error">>
      [] frame.topic # "" /\ frame.data # "missing" ->
             IF frame.data = "array" /\ frame.topic \in {"tickers", "orderbook"}
             THEN <<"on_error">>
             ELSE IF frame.topic = "orderbook" /\ frame.book = "missing"
             THEN <<"on_error">>
             ELSE IF /\ frame.topic \in {"tickers", "orderbook"}
                     /\ frame.symbol \in KnownSymbols
                     /\ frame.topic = "orderbook" => frame.book # "empty"
             THEN <<"on_data_received">>
             ELSE <<>>
      [] OTHER -> <<>>

\* is_ping_message or is_pong_message: handle_ping or handle_pong takes the
\* frame and the adapter does not see it.
IsPingOrPong(frame) == frame.json = "object" /\ frame.op \in {"ping", "pong"}

\* The wait for a frame ends: with a frame (quotes, a frame the adapter
\* rejects, a ping or pong), or with the closure.
Recv(frame) ==
    /\ LoopRuns("streaming")
    /\ Commit(CASE socket = "open" ->
                     handle_message_loop(
                         [Run EXCEPT !.message = frame,
                                     !.out = IF IsPingOrPong(frame) THEN <<>>
                                             ELSE process_message(frame)])
                [] socket = "closed_ok" -> LeaveConnection(Run, "return")
                [] OTHER ->
                     LeaveConnection([Run EXCEPT !.out = <<"on_error">>], "return"))

\* The wait for a frame ends with asyncio.TimeoutError on an open
\* connection: the loop continues with its test.
RecvTimeout ==
    /\ LoopRuns("streaming")
    /\ socket = "open"
    /\ Commit(handle_message_loop(Run))

\* The closure the async with waited for is complete.
CloseDone ==
    /\ LoopRuns("closing")
    /\ Commit(SessionEnd(Run, loop.after))

\* The sleep of apply_reconnect_delay ends.
BackoffExpires ==
    /\ LoopRuns("backoff")
    /\ Commit(WhileRunning(Run))

\* CancelledError is raised in the task of websocket_loop where it waits.
LoopCancelled ==
    /\ loop.cancel
    /\ ~TaskOver(loop.pc)
    /\ LET r == [Run EXCEPT !.loop.cancel = FALSE]
       IN  Commit(CASE loop.pc \in {"created", "backoff"} ->
                         [r EXCEPT !.loop.pc = "cancelled"]
                    [] loop.pc \in {"dialing", "closing"} ->
                         SessionEnd(r, "cancelled")
                    [] OTHER -> LeaveConnection(r, "cancelled"))

\* The other side closes the connection, normally or not.
RemoteClose(how) ==
    /\ socket = "open"
    /\ Commit([Run EXCEPT !.socket = how])

\* ping_loop: its tests, then send_ping.
PingLoop ==
    /\ ping \in {"created", "sleeping"}
    /\ Commit([Run EXCEPT !.ping = IF client.is_running /\ client.websocket # "None"
                                   THEN "sending" ELSE "done"])

\* A send_ping whose failure tears the connection down.
SendPing_Disconnects(raises) ==
    /\ ping = "sending"
    /\ Commit(CASE socket = "open" /\ ~raises -> [Run EXCEPT !.ping = "sleeping"]
                [] socket = "closed_ok" -> [Run EXCEPT !.ping = "done"]
                [] OTHER -> [Run EXCEPT !.ping = "done", !.out = <<"on_error">>,
                                        !.socket = "closed_error"])

\* send_ping ends: sent and the sleep begins; or ConnectionClosedOK on a
\* connection closed normally, which ends ping_loop in silence; or
\* ConnectionClosed, or another exception raised with the connection open,
\* which end it with on_error.
SendPing(raises) ==
    /\ ping = "sending"
    /\ Commit(CASE socket = "open" /\ ~raises -> [Run EXCEPT !.ping = "sleeping"]
                [] socket = "closed_ok" -> [Run EXCEPT !.ping = "done"]
                [] OTHER -> [Run EXCEPT !.ping = "done", !.out = <<"on_error">>])

\* stop() at its end: the references are cleared and the call returns.
StopReturn(r) ==
    [r EXCEPT !.client.ping_task = "None",
              !.client.websocket_task = "None",
              !.client.websocket = "None",
              !.call = NoClientCall]

\* A stop() that clears the references with websocket_loop still alive.
StopTask_NoCancel(r) == StopReturn(r)

\* stop() at the task of websocket_loop: cancel() and the wait for its end,
\* when there is such a task and it is not done.
StopTask(r) ==
    IF r.client.websocket_task = "task" /\ ~TaskOver(r.loop.pc)
    THEN [r EXCEPT !.loop.cancel = TRUE, !.call.pc = "await_task"]
    ELSE StopReturn(r)

\* stop() at the task of ping_loop: cancel() and the wait for its end, when
\* there is such a task and it is not done.
StopPing(r) ==
    IF r.client.ping_task = "task" /\ ~TaskOver(r.ping)
    THEN [r EXCEPT !.ping = "cancelled", !.call.pc = "await_ping"]
    ELSE StopTask(r)

\* stop(): nothing when not running; otherwise clears the flag and closes
\* the connection, when the client holds one.
ClientStopCall ==
    /\ clientCall.call.op = "none"
    /\ IF ~client.is_running
       THEN Commit([Run EXCEPT !.last = "stop_noop"])
       ELSE LET r == [Run EXCEPT !.client.is_running = FALSE,
                                 !.call = [op |-> "stop", pc |-> "close"],
                                 !.at = loop.pc,
                                 !.last = "stop"]
            IN  IF client.websocket # "None"
                THEN Commit([r EXCEPT !.socket = Close(@)])
                ELSE Commit(StopPing(r))

\* stop() resumes from the await it is suspended at.
StopResume ==
    /\ clientCall.call.op = "stop"
    /\ CASE clientCall.call.pc = "close" -> Commit(StopPing(Run))
         [] clientCall.call.pc = "await_ping" ->
                TaskOver(ping) /\ Commit(StopTask(Run))
         [] OTHER ->
                TaskOver(loop.pc) /\ Commit(StopReturn(Run))

\* send_ping of the adapter: the task of ping_loop waits in the send of its
\* ping on the socket.
PingSending == ping = "sending"

\* subscribe_symbols of the adapter: the task of the session waits in a
\* send of a subscribe message on the socket.
SubscribeSending == loop.pc = "subscribing"

\* The sends in progress on the socket, each by the task that makes it.
Sends ==
    (IF PingSending THEN {"ping_loop"} ELSE {})
        \cup (IF SubscribeSending THEN {"websocket_loop"} ELSE {})

DialOutcomes == {"ok", "timeout", "refused"}
FetchOutcomes == {"some", "none"}
\* The frames a venue sends: an order book and a ticker of a known symbol,
\* a pong, the two answers to a subscribe, what is not JSON, JSON that is
\* not an object, a ticker without its symbol, a frame with a topic and
\* no data, an order book without its levels, an order book whose price
\* is not a number.
Frames ==
    {Frame("object", "", FALSE, "orderbook", "object", SortedSymbols[1], "ok"),
     Frame("object", "", FALSE, "tickers", "object", SortedSymbols[1], "missing"),
     Frame("object", "pong", FALSE, "", "missing", "", "missing"),
     Frame("object", "subscribe", TRUE, "", "missing", "", "missing"),
     Frame("object", "subscribe", FALSE, "", "missing", "", "missing"),
     Frame("invalid", "", FALSE, "", "missing", "", "missing"),
     Frame("array", "", FALSE, "", "missing", "", "missing"),
     Frame("object", "", FALSE, "tickers", "object", "", "missing"),
     Frame("object", "", FALSE, "tickers", "missing", "", "missing"),
     Frame("object", "", FALSE, "orderbook", "object", SortedSymbols[1], "missing"),
     Frame("object", "", FALSE, "orderbook", "object", SortedSymbols[1], "text")}

Closures == {"closed_ok", "closed_error"}

(***************************************************************************)
(* ExchangeDataManager                                                     *)
(***************************************************************************)
\* The defaults of the constructor for the thresholds of its scan.
ManagerMaxAge == 10

\* The quote each venue streams while the manager runs.
ManagerQuotes ==
    {Quote("Binance", SortedSymbols[1], <<4, 1>>, <<4, 1>>),
     Quote("Bybit", SortedSymbols[1], <<5, 1>>, <<5, 1>>),
     Quote("Gate.io", SortedSymbols[1], <<4, 1>>, <<5, 1>>)}

\* __init__ with its argument exchange_to_monitor: the manager is built with
\* a client for every venue of the list, before any call of start().
ManagerConstruct(exchange_to_monitor) ==
    /\ managerCall.op = "none"
    /\ managerCall.last = "none"
    /\ clients' = [e \in exchange_to_monitor |-> "idle"]
    /\ clients' # clients
    /\ UNCHANGED <<manager, managerCall>>
    /\ UNCHANGED <<storeVars, clientVars, otherVars>>

\* The lists of venues the manager is built with.
MonitoredLists == {Exchange, {}}

\* No call of the manager is in flight; last is the latest call of start()
\* or stop() and whether it returned at its guard.
NoManagerCall == [op |-> "none", pc |-> "none", pending |-> {}, last |-> "none"]

\* The call in flight returns.
ManagerReturn == [NoManagerCall EXCEPT !.last = managerCall.last]

\* A start() of the manager without its guard.
ManagerStart_Unguarded ==
    /\ managerCall.op = "none"
    /\ manager' = [manager EXCEPT !.is_running = TRUE]
    /\ managerCall' = [op |-> "start", pc |-> "gather", pending |-> DOMAIN clients,
                       last |-> IF manager.is_running THEN "start_noop" ELSE "start"]
    /\ UNCHANGED clients
    /\ UNCHANGED <<storeVars, clientVars, otherVars>>

\* start(): returns at once when running; otherwise sets the flag and
\* suspends in the gather of the clients' start().
ManagerStart ==
    /\ managerCall.op = "none"
    /\ IF manager.is_running
       THEN /\ managerCall' = [managerCall EXCEPT !.last = "start_noop"]
            /\ UNCHANGED manager
       ELSE /\ manager' = [manager EXCEPT !.is_running = TRUE]
            /\ managerCall' = [op |-> "start", pc |-> "gather",
                               pending |-> DOMAIN clients, last |-> "start"]
    /\ UNCHANGED clients
    /\ UNCHANGED <<storeVars, clientVars, otherVars>>

\* The effects on the manager of one client.start() of the gather.
ClientStarted(e) ==
    /\ managerCall.op = "start"
    /\ e \in managerCall.pending
    /\ clients' = [clients EXCEPT ![e] = IF @ = "idle" THEN "running" ELSE @]
    /\ managerCall' = [managerCall EXCEPT !.pending = @ \ {e}]
    /\ UNCHANGED manager

\* One client.start() of the gather: the client starts unless it is running.
ClientStart(e) ==
    /\ ClientStarted(e)
    /\ UNCHANGED <<storeVars, clientVars, otherVars>>

\* start() after the gather, resumed only once a session is connected.
ManagerStartResume_AwaitsSession ==
    /\ managerCall.op = "start"
    /\ managerCall.pending = {}
    /\ socket = "open"
    /\ manager' = [manager EXCEPT !.arbitrage_task = "created"]
    /\ managerCall' = ManagerReturn
    /\ UNCHANGED clients
    /\ UNCHANGED <<storeVars, clientVars, otherVars>>

\* start() after the gather: creates the task of arbitrage_loop and returns.
ManagerStartResume ==
    /\ managerCall.op = "start"
    /\ managerCall.pending = {}
    /\ manager' = [manager EXCEPT !.arbitrage_task = "created"]
    /\ managerCall' = ManagerReturn
    /\ UNCHANGED clients
    /\ UNCHANGED <<storeVars, clientVars, otherVars>>

\* One turn of arbitrage_loop, entered when the task first runs and whenever
\* its sleep ends: it scans while is_running and otherwise leaves the loop.
ArbitrageLoop ==
    /\ manager.arbitrage_task \in {"created", "sleeping"}
    /\ IF manager.is_running
       THEN /\ find_arbitrage_opportunities(DefaultMinProfit, ManagerMaxAge)
            /\ manager' = [manager EXCEPT !.arbitrage_task = "sleeping"]
       ELSE /\ manager' = [manager EXCEPT !.arbitrage_task = "done"]
            /\ UNCHANGED storeVars
    /\ UNCHANGED <<managerCall, clients>>
    /\ UNCHANGED <<clientVars, otherVars>>

\* on_price_data_receive: a venue whose client has not stopped delivers.
OnPriceDataReceive(e) ==
    /\ e \in DOMAIN clients
    /\ clients[e] \in {"running", "stopping"}
    /\ \E price_data \in ManagerQuotes :
           price_data.exchange = e /\ update_price_data(price_data)
    /\ UNCHANGED <<managerVars, clientVars, otherVars>>

\* stop(): returns at once when not running; otherwise clears the flag and
\* suspends in the gather of the clients' stop().
ManagerStop ==
    /\ managerCall.op = "none"
    /\ IF ~manager.is_running
       THEN /\ managerCall' = [managerCall EXCEPT !.last = "stop_noop"]
            /\ UNCHANGED manager
       ELSE /\ manager' = [manager EXCEPT !.is_running = FALSE]
            /\ managerCall' = [op |-> "stop", pc |-> "gather",
                               pending |-> DOMAIN clients, last |-> "stop"]
    /\ UNCHANGED clients
    /\ UNCHANGED <<storeVars, clientVars, otherVars>>

\* One client.stop() of the gather begins: a client that is not running
\* returns at once, a running client starts to shut its session down.
ClientStopBegin(e) ==
    /\ managerCall.op = "stop"
    /\ managerCall.pc = "gather"
    /\ e \in managerCall.pending
    /\ clients[e] # "stopping"
    /\ IF clients[e] = "idle"
       THEN /\ managerCall' = [managerCall EXCEPT !.pending = @ \ {e}]
            /\ UNCHANGED clients
       ELSE /\ clients' = [clients EXCEPT ![e] = "stopping"]
            /\ UNCHANGED managerCall
    /\ UNCHANGED manager
    /\ UNCHANGED <<storeVars, clientVars, otherVars>>

\* A client.stop() of the gather returns.
ClientStopEnd(e) ==
    /\ managerCall.op = "stop"
    /\ e \in DOMAIN clients
    /\ clients[e] = "stopping"
    /\ clients' = [clients EXCEPT ![e] = "idle"]
    /\ managerCall' = [managerCall EXCEPT !.pending = @ \ {e}]
    /\ UNCHANGED manager
    /\ UNCHANGED <<storeVars, clientVars, otherVars>>

\* stop() after the gather: cancels arbitrage_task and awaits it.
ManagerStopResume ==
    /\ managerCall.op = "stop"
    /\ managerCall.pc = "gather"
    /\ managerCall.pending = {}
    /\ manager' = [manager EXCEPT !.arbitrage_task =
                       IF TaskOver(@) THEN @ ELSE "cancelled"]
    /\ managerCall' = [managerCall EXCEPT !.pc = "await_task"]
    /\ UNCHANGED clients
    /\ UNCHANGED <<storeVars, clientVars, otherVars>>

\* stop() returns once the awaited task is over.
ManagerStopReturn ==
    /\ managerCall.op = "stop"
    /\ managerCall.pc = "await_task"
    /\ TaskOver(manager.arbitrage_task)
    /\ managerCall' = ManagerReturn
    /\ UNCHANGED <<manager, clients>>
    /\ UNCHANGED <<storeVars, clientVars, otherVars>>

(***************************************************************************)
(* The adapters of Bybit and Gate.io: subscribe_symbols, process_message.  *)
(*                                                                         *)
(* The symbols fetch_symbols returns are numbered 1..n in the order of the *)
(* list.  One symbol of self.data is followed through the frames.          *)
(***************************************************************************)
MAX_ARGS_PER_MESSAGE == 10

\* The longest list of symbols that is followed.
MaxSymbols == 26

\* The adapter before a session: no venue, nothing fetched, nothing sent.
\* data is the PriceData of the symbol that is followed, frame the latest
\* frame processed and delivered what the data callback got for it.
NoAdapter ==
    [exchange |-> "", websocket |-> "None", symbols |-> 0,
     subscribed |-> FALSE, sent |-> <<>>, failed |-> FALSE,
     data |-> [bid_price |-> "None", ask_price |-> "None", last_price |-> "None"],
     frame |-> NoFrame, delivered |-> <<>>]

\* A session connects and fetch_symbols returns n symbols: every PriceData
\* of self.data is made anew, with no prices.
AdapterFetch(exchange, n) ==
    /\ adapter' = [NoAdapter EXCEPT !.exchange = exchange,
                                    !.websocket = "ws",
                                    !.symbols = n]
    /\ UNCHANGED <<storeVars, managerVars, clientVars, engine, gui, raceVars>>

\* subscribe_args of Bybit: for every symbol its tickers and its order book.
subscribe_args(n) ==
    [k \in 1..(2 * n) |->
        IF k % 2 = 1 THEN [topic |-> "tickers", symbol |-> (k + 1) \div 2]
                     ELSE [topic |-> "orderbook.1", symbol |-> k \div 2]]

\* A chunk that loses its last argument.
Chunk_Short(subscribe_args_list, i) ==
    SubSeq(subscribe_args_list, i + 1,
           Min(i + MAX_ARGS_PER_MESSAGE - 1, Len(subscribe_args_list)))

\* subscribe_args[i : i + MAX_ARGS_PER_MESSAGE], i counted from 0.
Chunk(subscribe_args_list, i) ==
    SubSeq(subscribe_args_list, i + 1,
           Min(i + MAX_ARGS_PER_MESSAGE, Len(subscribe_args_list)))

\* The frames the loop over range(0, len, MAX_ARGS_PER_MESSAGE) sends from
\* offset i on; the send of chunk number fails raises and ends the loop.
RECURSIVE SendChunks(_, _, _)
SendChunks(subscribe_args_list, i, fails) ==
    IF i >= Len(subscribe_args_list) THEN <<>>
    ELSE IF fails = i \div MAX_ARGS_PER_MESSAGE + 1 THEN <<>>
    ELSE <<Chunk(subscribe_args_list, i)>>
         \o SendChunks(subscribe_args_list, i + MAX_ARGS_PER_MESSAGE, fails)

\* The number of chunks of a list of arguments.
Chunks(subscribe_args_list) ==
    (Len(subscribe_args_list) + MAX_ARGS_PER_MESSAGE - 1) \div MAX_ARGS_PER_MESSAGE

\* BybitClient.subscribe_symbols: nothing without a connection; otherwise
\* the chunks of the arguments, until a send raises.
BybitSubscribe(fails) ==
    /\ adapter.exchange = "Bybit"
    /\ ~adapter.subscribed
    /\ adapter' =
           IF adapter.websocket = "None" THEN [adapter EXCEPT !.subscribed = TRUE]
           ELSE [adapter EXCEPT
                    !.subscribed = TRUE,
                    !.sent = SendChunks(subscribe_args(adapter.symbols), 0, fails),
                    !.failed = fails \in 1..Chunks(subscribe_args(adapter.symbols))]
    /\ UNCHANGED <<storeVars, managerVars, clientVars, engine, gui, raceVars>>

\* The two messages of Gate.io, each with the whole list as its payload.
GateioMessages(n) ==
    <<[channel |-> "spot.tickers", payload |-> [k \in 1..n |-> k]],
      [channel |-> "spot.book_ticker", payload |-> [k \in 1..n |-> k]]>>

\* GateioClient.subscribe_symbols: nothing without a connection; otherwise
\* the two messages, until a send raises.
GateioSubscribe(fails) ==
    /\ adapter.exchange = "Gate.io"
    /\ ~adapter.subscribed
    /\ adapter' =
           IF adapter.websocket = "None" THEN [adapter EXCEPT !.subscribed = TRUE]
           ELSE [adapter EXCEPT
                    !.subscribed = TRUE,
                    !.sent = SubSeq(GateioMessages(adapter.symbols), 1,
                                    IF fails \in 1..2 THEN fails - 1 ELSE 2),
                    !.failed = fails \in 1..2]
    /\ UNCHANGED <<storeVars, managerVars, clientVars, engine, gui, raceVars>>

\* symbol_price_data of a Bybit frame: the keys that hold a value, and of
\* those the ones float() takes.  The tickers give last_price; the order
\* book gives the sides whose list of levels is not empty.
BybitPriceData(frame) ==
    CASE frame.topic = "tickers" -> [keys |-> {"last_price"}, numbers |-> {}]
      [] frame.topic = "orderbook" /\ frame.book = "ok" ->
             [keys |-> {"bid_price", "ask_price"}, numbers |-> {"bid_price", "ask_price"}]
      [] frame.topic = "orderbook" /\ frame.book = "bid_only" ->
             [keys |-> {"bid_price"}, numbers |-> {"bid_price"}]
      [] frame.topic = "orderbook" /\ frame.book = "ask_only" ->
             [keys |-> {"ask_price"}, numbers |-> {"ask_price"}]
      [] frame.topic = "orderbook" /\ frame.book = "text" ->
             [keys |-> {"bid_price", "ask_price"}, numbers |-> {}]
      [] OTHER -> [keys |-> {}, numbers |-> {}]

\* PriceData.update: a price is set from a value float() takes; a key that
\* is not a field of PriceData (last_price) is skipped.
update(price_data, new_data) ==
    [bid_price  |-> IF "bid_price" \in new_data.numbers THEN "set" ELSE price_data.bid_price,
     ask_price  |-> IF "ask_price" \in new_data.numbers THEN "set" ELSE price_data.ask_price,
     last_price |-> price_data.last_price]

\* BybitClient.process_message on a frame that arrives after the subscribe:
\* when it makes the data callback, the PriceData of the symbol is updated
\* and passed to it.
BybitProcess(frame) ==
    /\ adapter.exchange = "Bybit"
    /\ adapter.subscribed
    /\ adapter' =
           IF process_message(frame) = <<"on_data_received">>
           THEN [adapter EXCEPT
                    !.frame = frame,
                    !.data = update(@, BybitPriceData(frame)),
                    !.delivered = <<update(adapter.data, BybitPriceData(frame))>>]
           ELSE [adapter EXCEPT !.frame = frame, !.delivered = <<>>]
    /\ UNCHANGED <<storeVars, managerVars, clientVars, engine, gui, raceVars>>

\* A frame of Gate.io as the adapter reads it: its event, its channel, the
\* symbol of its result ("" when missing) and the sides its result holds.
GateioFrame(event, channel, symbol, book) ==
    [json |-> "object", op |-> event, success |-> TRUE, topic |-> channel,
     data |-> "object", symbol |-> symbol, book |-> book]

\* symbol_price_data of a Gate.io frame: the tickers give last; book_ticker
\* gives the four keys, with None for what the result lacks.
GateioPriceData(frame) ==
    CASE frame.topic = "spot.tickers" -> [keys |-> {"last_price"}, numbers |-> {}]
      [] frame.topic = "spot.book_ticker" ->
             [keys    |-> {"bid_price", "ask_price"},
              numbers |-> CASE frame.book = "ok" -> {"bid_price", "ask_price"}
                            [] frame.book = "bid_only" -> {"bid_price"}
                            [] frame.book = "ask_only" -> {"ask_price"}
                            [] OTHER -> {}]
      [] OTHER -> [keys |-> {}, numbers |-> {}]

\* Whether GateioClient.process_message makes the data callback: for an
\* update of one of its two channels about a symbol of self.data.
GateioEmits(frame) ==
    /\ frame.op = "update"
    /\ frame.topic \in {"spot.tickers", "spot.book_ticker"}
    /\ frame.symbol \in KnownSymbols

\* GateioClient.process_message on a frame that arrives after the subscribe.
GateioProcess(frame) ==
    /\ adapter.exchange = "Gate.io"
    /\ adapter.subscribed
    /\ adapter' =
           IF GateioEmits(frame)
           THEN [adapter EXCEPT
                    !.frame = frame,
                    !.data = update(@, GateioPriceData(frame)),
                    !.delivered = <<update(adapter.data, GateioPriceData(frame))>>]
           ELSE [adapter EXCEPT !.frame = frame, !.delivered = <<>>]
    /\ UNCHANGED <<storeVars, managerVars, clientVars, engine, gui, raceVars>>

\* The frames of Bybit that carry prices, and an acknowledgement.
BybitFrames ==
    {Frame("object", "", FALSE, "tickers", "object", SortedSymbols[1], "missing"),
     Frame("object", "subscribe", TRUE, "", "missing", "", "missing")}
    \cup {Frame("object", "", FALSE, "orderbook", "object", SortedSymbols[1], book) :
             book \in {"ok", "bid_only", "ask_only", "empty", "text"}}

\* The frames of Gate.io that carry prices, and an acknowledgement.
GateioFrames ==
    {GateioFrame("update", "spot.tickers", SortedSymbols[1], "missing"),
     GateioFrame("subscribe", "spot.book_ticker", "", "missing"),
     GateioFrame("update", "spot.book_ticker", "", "ok")}
    \cup {GateioFrame("update", "spot.book_ticker", SortedSymbols[1], book) :
             book \in {"ok", "bid_only", "ask_only", "missing"}}

\* The send that raises: none (0) or the send of that number.
SendFailures == 0..2

AdapterNext ==
    \/ \E exchange \in {"Bybit", "Gate.io"}, n \in 1..MaxSymbols :
           AdapterFetch(exchange, n)
    \/ \E fails \in SendFailures : BybitSubscribe(fails)
    \/ \E fails \in SendFailures : GateioSubscribe(fails)
    \/ \E frame \in BybitFrames : BybitProcess(frame)
    \/ \E frame \in GateioFrames : GateioProcess(frame)

(***************************************************************************)
(* MainWindow, AppController and AsyncWorker                               *)
(*                                                                         *)
(* The handlers of the window run on the thread of the window, one at a    *)
(* time.  The coroutines of the application run on the loop of the worker  *)
(* thread in the order they were submitted; the done callback of a future  *)
(* runs on the worker thread, so the signal it emits is queued to the      *)
(* thread of the window.                                                   *)
(***************************************************************************)
\* The window after construction: no application, the worker's loop
\* running, Start enabled, no venue checked.  tasks holds the coroutines in
\* flight, queued the app_stopped signals queued to the window, finalized
\* counts the runs of finalize_shutdown.
NoGui ==
    [app |-> "None", is_running |-> FALSE, is_shutting_down |-> FALSE,
     is_closing |-> FALSE, cleanup_finished |-> FALSE,
     start_btn |-> TRUE, stop_btn |-> FALSE,
     controls |-> TRUE, checked |-> {},
     tasks |-> <<>>, queued |-> 0, loop |-> "running", joining |-> FALSE,
     finalized |-> 0]

\* The runs of finalize_shutdown that are counted.
MaxFinalized == 2

\* finalize_shutdown: stop_loop() asks the loop to stop; join() then holds
\* the thread of the window until the worker thread has ended.
finalize_shutdown(g) ==
    [g EXCEPT !.finalized = Min(@ + 1, MaxFinalized),
              !.loop = IF @ = "running" THEN "stopping" ELSE @,
              !.joining = TRUE]

\* on_app_stopped_ui_update: the shutdown is finalized when the window is
\* closing; otherwise Start is enabled again.
on_app_stopped_ui_update(g) ==
    IF g.is_closing THEN finalize_shutdown(g)
    ELSE [g EXCEPT !.controls = TRUE, !.start_btn = TRUE, !.stop_btn = FALSE]

\* stop_app: with an application, its stop() is submitted to the worker and
\* on_app_stopped is set as done callback of the future; without one,
\* app_stopped is emitted on the thread of the window, which runs its slot
\* at once, and the shutdown is finalized when one is under way.
stop_app(g) ==
    IF g.app # "None"
    THEN [g EXCEPT !.tasks = Append(@, [op |-> "stop", pc |-> "submitted"])]
    ELSE LET h == on_app_stopped_ui_update(g)
         IN  IF h.is_shutting_down THEN finalize_shutdown(h) ELSE h

\* cleanup: the application is stopped if there is one.
cleanup(g) ==
    LET h == [g EXCEPT !.is_shutting_down = TRUE]
    IN  IF h.app # "None" THEN stop_app(h) ELSE finalize_shutdown(h)

\* The thread of the window runs a handler: it is not held in join() and
\* the window is open.
WindowRuns == ~gui.joining /\ ~gui.cleanup_finished

\* A click on the checkbox of a venue.
ToggleExchange(e) ==
    /\ WindowRuns
    /\ gui.controls
    /\ gui' = [gui EXCEPT !.checked = IF e \in @ THEN @ \ {e} ELSE @ \cup {e}]
    /\ UNCHANGED <<storeVars, managerVars, clientVars, engine, adapter, raceVars>>

\* on_start_clicked: a warning with fewer than two venues checked;
\* otherwise start_app, in which the application is built and its start()
\* submitted unless building raises, and then the buttons.
OnStartClicked(built) ==
    /\ WindowRuns
    /\ gui.start_btn
    /\ Cardinality(gui.checked) >= 2
    /\ gui' = [(IF built
                THEN [gui EXCEPT !.app = "app",
                                 !.is_running = FALSE,
                                 !.tasks = Append(@, [op |-> "start", pc |-> "submitted"])]
                ELSE gui)
               EXCEPT !.controls = FALSE, !.start_btn = FALSE, !.stop_btn = TRUE]
    /\ UNCHANGED <<storeVars, managerVars, clientVars, engine, adapter, raceVars>>

\* on_stop_clicked.
OnStopClicked ==
    /\ WindowRuns
    /\ gui.stop_btn
    /\ gui' = [stop_app(gui) EXCEPT !.stop_btn = FALSE]
    /\ UNCHANGED <<storeVars, managerVars, clientVars, engine, adapter, raceVars>>

\* closeEvent of a window that is not closing yet.
CloseEvent ==
    /\ WindowRuns
    /\ ~gui.is_closing
    /\ gui' = cleanup([gui EXCEPT !.is_closing = TRUE,
                                  !.start_btn = FALSE,
                                  !.stop_btn = FALSE,
                                  !.controls = FALSE])
    /\ UNCHANGED <<storeVars, managerVars, clientVars, engine, adapter, raceVars>>

\* The window takes a queued app_stopped signal.
DeliverAppStopped ==
    /\ WindowRuns
    /\ gui.queued > 0
    /\ gui' = on_app_stopped_ui_update([gui EXCEPT !.queued = @ - 1])
    /\ UNCHANGED <<storeVars, managerVars, clientVars, engine, adapter, raceVars>>

\* join() returns: finished is emitted, on_cleanup_finished closes the
\* window and closeEvent accepts.
JoinReturns ==
    /\ gui.joining
    /\ gui.loop = "stopped"
    /\ gui' = [gui EXCEPT !.joining = FALSE, !.cleanup_finished = TRUE]
    /\ UNCHANGED <<storeVars, managerVars, clientVars, engine, adapter, raceVars>>

\* on_app_stopped, the done callback of a stop(), on the worker thread.
on_app_stopped(g) == [g EXCEPT !.app = "None", !.queued = @ + 1]

\* The tasks without the one at index i.
Without(tasks, i) == SubSeq(tasks, 1, i - 1) \o SubSeq(tasks, i + 1, Len(tasks))

\* The first coroutine in flight at the given place, 0 when there is none.
FirstAt(tasks, pc) ==
    IF \E i \in 1..Len(tasks) : tasks[i].pc = pc
    THEN CHOOSE i \in 1..Len(tasks) :
             tasks[i].pc = pc /\ \A j \in 1..(i - 1) : tasks[j].pc # pc
    ELSE 0

\* The loop of the worker runs callbacks: it has not stopped.
WorkerRuns == gui.loop \in {"running", "stopping"}

\* The first run of a submitted coroutine, start() or stop() of the
\* application: it returns at its guard, or flips is_running and awaits.
TaskBegin ==
    /\ WorkerRuns
    /\ FirstAt(gui.tasks, "submitted") # 0
    /\ LET i == FirstAt(gui.tasks, "submitted")
           op == gui.tasks[i].op
       IN  gui' =
               IF (op = "start") = gui.is_running
               THEN LET g == [gui EXCEPT !.tasks = Without(@, i)]
                    IN  IF op = "stop" THEN on_app_stopped(g) ELSE g
               ELSE [gui EXCEPT !.is_running = (op = "start"),
                                !.tasks[i].pc = "awaiting"]
    /\ UNCHANGED <<storeVars, managerVars, clientVars, engine, adapter, raceVars>>

\* A coroutine that awaited returns; its future is done.
TaskEnd ==
    /\ WorkerRuns
    /\ FirstAt(gui.tasks, "awaiting") # 0
    /\ LET i == FirstAt(gui.tasks, "awaiting")
           g == [gui EXCEPT !.tasks = Without(@, i)]
       IN  gui' = IF gui.tasks[i].op = "stop" THEN on_app_stopped(g) ELSE g
    /\ UNCHANGED <<storeVars, managerVars, clientVars, engine, adapter, raceVars>>

\* loop.stop() takes effect: run_forever returns and the thread ends.
LoopStops ==
    /\ gui.loop = "stopping"
    /\ gui' = [gui EXCEPT !.loop = "stopped"]
    /\ UNCHANGED <<storeVars, managerVars, clientVars, engine, adapter, raceVars>>

GuiNext ==
    \/ \E e \in Exchange : ToggleExchange(e)
    \/ \E built \in BOOLEAN : OnStartClicked(built)
    \/ OnStopClicked
    \/ CloseEvent
    \/ DeliverAppStopped
    \/ JoinReturns
    \/ TaskBegin
    \/ TaskEnd
    \/ LoopStops

(***************************************************************************)
(* ArbitrageEngine                                                         *)
(*                                                                         *)
(* One caller awaits start() and stop() one after the other.  A turn of    *)
(* arbitrage_loop runs from the end of one sleep to the next.              *)
(***************************************************************************)
\* The default of the constructor for max_data_age_seconds.
EngineMaxAge == 10

\* Two venues quoting two symbols, each pair an opportunity of 25 percent.
EngineQuotes ==
    {Quote(e[1], sym, <<e[2], 1>>, <<e[2], 1>>) :
        e \in {<<"Binance", 4>>, <<"Bybit", 5>>},
        sym \in {SortedSymbols[i] : i \in 1..Min(2, Len(SortedSymbols))}}

\* The engine after construction.  scan is the latest turn of the loop that
\* scanned: what it found, the arguments of its calls of arbitrage_callback
\* and what raised; last is the latest call of start() or stop().
NoEngine ==
    [is_running     |-> FALSE,
     arbitrage_task |-> "none",
     call           |-> "none",
     last           |-> "none",
     scan           |-> [found |-> <<>>, invoked |-> <<>>, raised |-> "none", turns |-> 0]]

\* The outcomes of one turn: nothing raises, the scan of the store raises,
\* or the n-th call of arbitrage_callback raises.
EngineOutcomes == {"none", "scan", "callback_1", "callback_2"}

\* opportunity_details of one row of the scan: the row, and the prices of
\* its two venues as get_data_for_symbol reads them again from the store d,
\* "N/A" for a key that is not there.
Details(d, row) ==
    LET buy_data == GetResult(d, row.buy_exchange, row.symbol)
        sell_data == GetResult(d, row.sell_exchange, row.symbol)
    IN  [symbol         |-> row.symbol,
         buy_exchange   |-> row.buy_exchange,
         buy_price      |-> row.buy_price,
         buy_bid        |-> IF buy_data # <<>> THEN buy_data[1].bid_price ELSE "N/A",
         buy_ask        |-> IF buy_data # <<>> THEN buy_data[1].ask_price ELSE "N/A",
         sell_exchange  |-> row.sell_exchange,
         sell_price     |-> row.sell_price,
         sell_bid       |-> IF sell_data # <<>> THEN sell_data[1].bid_price ELSE "N/A",
         sell_ask       |-> IF sell_data # <<>> THEN sell_data[1].ask_price ELSE "N/A",
         profit_percent |-> row.profit_percent]

\* The calls of arbitrage_callback the for loop makes over the rows until a
\* call raises: one call for every row, each with the details of that row
\* as read from the store d.
Invocations(d, rows, raises) ==
    LET upto == IF raises = "callback_1" THEN Min(1, Len(rows))
                ELSE IF raises = "callback_2" THEN Min(2, Len(rows))
                ELSE Len(rows)
    IN  [i \in 1..upto |-> [kind |-> "dict", rows |-> <<rows[i]>>,
                            details |-> Details(d, rows[i])]]

\* A turn whose for loop reads the store after every venue has delivered
\* a later quote, one price level up, since the scan.
EngineScan_Yields(raises) ==
    LET found == Opportunities(df, clock, DefaultMinProfit, EngineMaxAge)
        later == [i \in 1..Len(df) |-> [df[i] EXCEPT !.bid_price = @ + 1,
                                                     !.ask_price = @ + 1]]
    IN  IF raises = "scan"
        THEN [found |-> <<>>, invoked |-> <<>>, raised |-> "scan",
              turns |-> 1 - engine.scan.turns]
        ELSE [found   |-> found,
              invoked |-> Invocations(later, found, raises),
              raised  |-> IF \/ raises = "callback_1" /\ Len(found) >= 1
                             \/ raises = "callback_2" /\ Len(found) >= 2
                          THEN "callback" ELSE "none",
              turns   |-> 1 - engine.scan.turns]

\* The body of the try of one turn: the scan and the for loop over its rows
\* run without an await, on the store as it is in this turn.
EngineScan(raises) ==
    LET found == Opportunities(df, clock, DefaultMinProfit, EngineMaxAge)
    IN  IF raises = "scan"
        THEN [found |-> <<>>, invoked |-> <<>>, raised |-> "scan",
              turns |-> 1 - engine.scan.turns]
        ELSE [found   |-> found,
              invoked |-> Invocations(df, found, raises),
              raised  |-> IF \/ raises = "callback_1" /\ Len(found) >= 1
                             \/ raises = "callback_2" /\ Len(found) >= 2
                          THEN "callback" ELSE "none",
              turns   |-> 1 - engine.scan.turns]

\* A turn of arbitrage_loop in which an exception leaves the loop.
arbitrage_loop_Unguarded(raises) ==
    /\ engine.arbitrage_task \in {"created", "sleeping"}
    /\ IF engine.is_running
       THEN /\ find_arbitrage_opportunities(DefaultMinProfit, EngineMaxAge)
            /\ engine' = [engine EXCEPT
                   !.scan = EngineScan(raises),
                   !.arbitrage_task =
                       IF EngineScan(raises).raised = "none" THEN "sleeping" ELSE "done"]
       ELSE /\ engine' = [engine EXCEPT !.arbitrage_task = "done"]
            /\ UNCHANGED storeVars
    /\ UNCHANGED <<managerVars, clientVars, adapter, gui, raceVars>>

\* One turn of arbitrage_loop, entered when the task first runs and whenever
\* its sleep ends: while is_running it scans, calls the callback for the
\* rows, swallows what raises and sleeps; otherwise it leaves the loop.
arbitrage_loop(raises) ==
    /\ engine.arbitrage_task \in {"created", "sleeping"}
    /\ IF engine.is_running
       THEN /\ find_arbitrage_opportunities(DefaultMinProfit, EngineMaxAge)
            /\ engine' = [engine EXCEPT !.scan = EngineScan(raises),
                                        !.arbitrage_task = "sleeping"]
       ELSE /\ engine' = [engine EXCEPT !.arbitrage_task = "done"]
            /\ UNCHANGED storeVars
    /\ UNCHANGED <<managerVars, clientVars, adapter, gui, raceVars>>

\* start(): returns at once when running; otherwise sets the flag and makes
\* the task of arbitrage_loop.
EngineStart ==
    /\ engine.call = "none"
    /\ engine' = IF engine.is_running
                 THEN [engine EXCEPT !.last = "start_noop"]
                 ELSE [engine EXCEPT !.is_running = TRUE,
                                     !.arbitrage_task = "created",
                                     !.last = "start"]
    /\ UNCHANGED <<storeVars, managerVars, clientVars, adapter, gui, raceVars>>

\* A stop() of the engine that does not cancel the task.
EngineStop_NoCancel ==
    /\ engine.call = "none"
    /\ engine' = IF ~engine.is_running
                 THEN [engine EXCEPT !.last = "stop_noop"]
                 ELSE [engine EXCEPT !.is_running = FALSE, !.last = "stop"]
    /\ UNCHANGED <<storeVars, managerVars, clientVars, adapter, gui, raceVars>>

\* stop(): returns at once when not running; otherwise clears the flag,
\* cancels the task and awaits it.
EngineStop ==
    /\ engine.call = "none"
    /\ engine' = IF ~engine.is_running
                 THEN [engine EXCEPT !.last = "stop_noop"]
                 ELSE [engine EXCEPT
                          !.is_running = FALSE,
                          !.arbitrage_task = IF TaskOver(@) THEN @ ELSE "cancelled",
                          !.call = "stop",
                          !.last = "stop"]
    /\ UNCHANGED <<storeVars, managerVars, clientVars, adapter, gui, raceVars>>

\* stop() returns once the awaited task is over.
EngineStopReturn ==
    /\ engine.call = "stop"
    /\ TaskOver(engine.arbitrage_task)
    /\ engine' = [engine EXCEPT !.call = "none"]
    /\ UNCHANGED <<storeVars, managerVars, clientVars, adapter, gui, raceVars>>

\* The venues stream into the store of the engine.
EngineUpdate ==
    /\ \E price_data \in EngineQuotes : update_price_data(price_data)
    /\ UNCHANGED <<managerVars, clientVars, otherVars>>

\* The venues stream one symbol into the store of the engine.
EngineUpdateOne ==
    /\ \E price_data \in EngineQuotes :
           price_data.symbol = SortedSymbols[1] /\ update_price_data(price_data)
    /\ UNCHANGED <<managerVars, clientVars, otherVars>>

\* Two venues quoting one symbol with both sides present at two price
\* levels.
SnapshotQuotes ==
    {Quote(e, SortedSymbols[1], <<b, 1>>, <<a, 1>>) :
        e \in {"Binance", "Bybit"}, b \in {4, 8}, a \in {4, 8}}

\* Two venues stream one symbol at prices that vary into the store of the
\* engine.
SnapshotUpdate ==
    /\ \E price_data \in SnapshotQuotes : update_price_data(price_data)
    /\ UNCHANGED <<managerVars, clientVars, otherVars>>

SnapshotNext ==
    \/ EngineStart
    \/ \E raises \in EngineOutcomes : arbitrage_loop(raises)
    \/ SnapshotUpdate

EngineNext ==
    \/ EngineStart
    \/ \E raises \in EngineOutcomes : arbitrage_loop(raises)
    \/ EngineStop
    \/ EngineStopReturn
    \/ EngineUpdate

(***************************************************************************)
(* BaseExchangeClient under calls of start() and stop() that overlap: a    *)
(* start() runs to its end in one turn of the event loop, a stop() is      *)
(* suspended at its awaits, and every task of websocket_loop and of        *)
(* ping_loop that was ever created is followed, referenced by the client   *)
(* or not.  Tasks and connections are numbered in the order of creation;   *)
(* 0 stands for None.                                                      *)
(***************************************************************************)
\* The tasks of websocket_loop, the tasks of ping_loop and the calls of
\* stop() in flight that are followed.
MaxTasks == 2
MaxPings == 2
MaxStops == 2

\* A task of websocket_loop or of ping_loop that has not ended.
OverlapAlive(pc) == pc \notin {"unborn", "done", "cancelled"}

\* The client after construction.
NoOverlap ==
    [is_running |-> FALSE, websocket_task |-> 0, ping_task |-> 0, websocket |-> 0,
     tasks |-> [i \in 1..MaxTasks |-> [pc |-> "unborn", cancel |-> FALSE]],
     sockets |-> [i \in 1..MaxTasks |-> "none"],
     pings |-> [p \in 1..MaxPings |-> "unborn"],
     owners |-> [p \in 1..MaxPings |-> 0],
     stops |-> [c \in 1..MaxStops |-> [pc |-> "none", target |-> 0]],
     last |-> "none"]

\* The finally of run_websocket_session: it cancels the task self.ping_task
\* refers to, whichever session made it, and clears the references.
OverlapFinally(o) ==
    [o EXCEPT !.pings = IF o.ping_task # 0 /\ @[o.ping_task] = "alive"
                        THEN [@ EXCEPT ![o.ping_task] = "cancelled"] ELSE @,
              !.ping_task = 0,
              !.websocket = 0]

\* websocket_loop of task i after its while.
OverlapLoopExit(o, i) ==
    [o EXCEPT !.is_running = FALSE, !.tasks[i].pc = "done"]

\* The test of the while of websocket_loop in task i, and the entry of
\* run_websocket_session up to the dial.
OverlapWhile(o, i) ==
    IF o.is_running
    THEN [o EXCEPT !.websocket = 0, !.tasks[i].pc = "dialing"]
    ELSE OverlapLoopExit(o, i)

\* websocket_loop of task i after run_websocket_session has returned.
OverlapAfterSession(o, i) ==
    IF o.is_running
    THEN [o EXCEPT !.tasks[i].pc = "backoff"]
    ELSE OverlapLoopExit(o, i)

\* Task i is at pc and no CancelledError waits for it.
OverlapRuns(i, pc) ==
    overlap.tasks[i].pc = pc /\ ~overlap.tasks[i].cancel

OverlapCommit(o) ==
    /\ overlap' = o
    /\ UNCHANGED <<storeVars, managerVars, clientVars, engine, adapter, gui, race, worker, delivery>>

\* Task i of websocket_loop runs for the first time.
OverlapLoopBegin(i) ==
    /\ OverlapRuns(i, "created")
    /\ OverlapCommit(OverlapWhile(overlap, i))

\* The dial of task i ends: with a connection, which becomes self.websocket
\* and whose task of ping_loop becomes self.ping_task, or with an error.
OverlapDial(i, outcome) ==
    /\ OverlapRuns(i, "dialing")
    /\ IF outcome = "ok"
       THEN \E p \in 1..MaxPings :
                /\ overlap.pings[p] = "unborn"
                /\ \A q \in 1..(p - 1) : overlap.pings[q] # "unborn"
                /\ OverlapCommit([overlap EXCEPT !.websocket = i,
                                                 !.sockets[i] = "open",
                                                 !.ping_task = p,
                                                 !.pings[p] = "alive",
                                                 !.owners[p] = i,
                                                 !.tasks[i].pc = "session"])
       ELSE OverlapCommit(OverlapAfterSession(OverlapFinally(overlap), i))

\* The session of task i ends, by a closure, an error or a return: the
\* async with closes its connection, the finally runs, websocket_loop goes
\* on.
OverlapSessionEnd(i) ==
    /\ OverlapRuns(i, "session")
    /\ OverlapCommit(OverlapAfterSession(
           OverlapFinally([overlap EXCEPT !.sockets[i] = "closed"]), i))

\* The sleep of apply_reconnect_delay of task i ends.
OverlapBackoffExpires(i) ==
    /\ OverlapRuns(i, "backoff")
    /\ OverlapCommit(OverlapWhile(overlap, i))

\* CancelledError is raised in task i where it waits.
OverlapCancelled(i) ==
    /\ overlap.tasks[i].cancel
    /\ OverlapAlive(overlap.tasks[i].pc)
    /\ LET o == [overlap EXCEPT !.tasks[i] = [pc |-> "cancelled", cancel |-> FALSE]]
       IN  OverlapCommit(CASE overlap.tasks[i].pc = "dialing" -> OverlapFinally(o)
                           [] overlap.tasks[i].pc = "session" ->
                                  OverlapFinally([o EXCEPT !.sockets[i] = "closed"])
                           [] OTHER -> o)

\* ping_loop of task p ends by itself: its test fails, or its send does on
\* a connection that is closed.
OverlapPing(p) ==
    /\ overlap.pings[p] = "alive"
    /\ IF overlap.is_running /\ overlap.websocket # 0
       THEN overlap.sockets[overlap.websocket] # "open"
       ELSE TRUE
    /\ OverlapCommit([overlap EXCEPT !.pings[p] = "done"])

\* start(): nothing when running; otherwise the flag, self.ping_task
\* cleared and a new task of websocket_loop in self.websocket_task.
OverlapStart ==
    IF overlap.is_running
    THEN /\ overlap.last # "start"
         /\ OverlapCommit([overlap EXCEPT !.last = "start"])
    ELSE \E i \in 1..MaxTasks :
             /\ overlap.tasks[i].pc = "unborn"
             /\ \A j \in 1..(i - 1) : overlap.tasks[j].pc # "unborn"
             /\ OverlapCommit([overlap EXCEPT !.is_running = TRUE,
                                              !.ping_task = 0,
                                              !.websocket_task = i,
                                              !.tasks[i].pc = "created",
                                              !.last = "start"])

\* stop() at its end: the references are cleared and call c returns.
OverlapStopReturn(o, c) ==
    [o EXCEPT !.ping_task = 0, !.websocket_task = 0, !.websocket = 0,
              !.stops[c] = [pc |-> "none", target |-> 0]]

\* stop() at self.websocket_task: cancel() and the wait for that task.
OverlapStopTask(o, c) ==
    IF o.websocket_task # 0 /\ OverlapAlive(o.tasks[o.websocket_task].pc)
    THEN [o EXCEPT !.tasks[o.websocket_task].cancel = TRUE,
                   !.stops[c] = [pc |-> "await_task", target |-> o.websocket_task]]
    ELSE OverlapStopReturn(o, c)

\* stop() at self.ping_task: cancel() and the wait for that task.
OverlapStopPing(o, c) ==
    IF o.ping_task # 0 /\ o.pings[o.ping_task] = "alive"
    THEN [o EXCEPT !.pings[o.ping_task] = "cancelled",
                   !.stops[c] = [pc |-> "await_ping", target |-> 0]]
    ELSE OverlapStopTask(o, c)

\* stop() as call c: nothing when not running; otherwise it clears the flag
\* and closes the connection self.websocket refers to, when there is one.
OverlapStop(c) ==
    /\ overlap.stops[c].pc = "none"
    /\ \A d \in 1..(c - 1) : overlap.stops[d].pc # "none"
    /\ IF ~overlap.is_running
       THEN /\ overlap.last # "stop"
            /\ OverlapCommit([overlap EXCEPT !.last = "stop"])
       ELSE LET o == [overlap EXCEPT !.is_running = FALSE, !.last = "stop"]
            IN  IF overlap.websocket # 0
                THEN OverlapCommit([o EXCEPT !.sockets[overlap.websocket] = "closed",
                                             !.stops[c] = [pc |-> "close", target |-> 0]])
                ELSE OverlapCommit(OverlapStopPing(o, c))

\* Call c of stop() resumes from the await it is suspended at.
OverlapStopResume(c) ==
    CASE overlap.stops[c].pc = "close" ->
             OverlapCommit(OverlapStopPing(overlap, c))
      [] overlap.stops[c].pc = "await_ping" ->
             OverlapCommit(OverlapStopTask(overlap, c))
      [] overlap.stops[c].pc = "await_task" ->
             /\ ~OverlapAlive(overlap.tasks[overlap.stops[c].target].pc)
             /\ OverlapCommit(OverlapStopReturn(overlap, c))
      [] OTHER -> FALSE

OverlapNext ==
    \/ OverlapStart
    \/ \E c \in 1..MaxStops : OverlapStop(c)
    \/ \E c \in 1..MaxStops : OverlapStopResume(c)
    \/ \E i \in 1..MaxTasks : OverlapLoopBegin(i)
    \/ \E i \in 1..MaxTasks, outcome \in {"ok", "refused"} : OverlapDial(i, outcome)
    \/ \E i \in 1..MaxTasks : OverlapSessionEnd(i)
    \/ \E i \in 1..MaxTasks : OverlapBackoffExpires(i)
    \/ \E i \in 1..MaxTasks : OverlapCancelled(i)
    \/ \E p \in 1..MaxPings : OverlapPing(p)

(***************************************************************************)
(* ExchangeDataManager under calls of start() and stop() that overlap:     *)
(* each call is suspended in its gather while the client.start() or        *)
(* client.stop() it gathered run, and other calls of the manager may begin *)
(* meanwhile.  Of a client its flag and whether a stop() of it is          *)
(* suspended are kept; of the tasks of arbitrage_loop the one that         *)
(* self.arbitrage_task refers to and the number of the others alive.       *)
(***************************************************************************)
\* The calls of the manager in flight and the tasks of arbitrage_loop
\* without a reference that are followed.
MaxCalls == 2
MaxOrphans == 1

\* The venues of the manager.
RaceVenues == {"Binance", "Bybit"}

NoRaceCall == [op |-> "none", pc |-> "none", pending |-> {}, waiting |-> {}]

\* The manager after construction.
NoRace ==
    [is_running |-> FALSE, arbitrage_task |-> "none", orphans |-> 0,
     clients |-> [e \in RaceVenues |-> "idle"],
     calls |-> [c \in 1..MaxCalls |-> NoRaceCall]]

RaceCommit(m) ==
    /\ race' = m
    /\ UNCHANGED <<storeVars, managerVars, clientVars, engine, adapter, gui, overlap, worker, delivery>>

\* Call c is the first free place for a call that begins.
RaceFree(c) ==
    /\ race.calls[c].op = "none"
    /\ \A d \in 1..(c - 1) : race.calls[d].op # "none"

\* start() as call c, which returns at once with no effect when running:
\* it sets the flag and suspends in the gather of the clients' start().
RaceStart(c) ==
    /\ RaceFree(c)
    /\ ~race.is_running
    /\ RaceCommit([race EXCEPT !.is_running = TRUE,
                               !.calls[c] = [op |-> "start", pc |-> "gather",
                                             pending |-> RaceVenues, waiting |-> {}]])

\* One client.start() of the gather of call c: the client sets its flag and
\* creates its task unless its flag is set.
RaceClientStart(c, e) ==
    /\ race.calls[c].op = "start"
    /\ e \in race.calls[c].pending
    /\ RaceCommit([race EXCEPT !.clients[e] = "running",
                               !.calls[c].pending = @ \ {e}])

\* start() after its gather: the task of arbitrage_loop is created in
\* self.arbitrage_task, whatever the flag is by now, and the call returns.
RaceStartResume(c) ==
    /\ race.calls[c].op = "start"
    /\ race.calls[c].pending = {}
    /\ ~TaskOver(race.arbitrage_task) => race.orphans < MaxOrphans
    /\ RaceCommit([race EXCEPT !.orphans = IF TaskOver(race.arbitrage_task)
                                           THEN @ ELSE @ + 1,
                               !.arbitrage_task = "created",
                               !.calls[c] = NoRaceCall])

\* stop() as call c, which returns at once with no effect when not running:
\* it clears the flag and suspends in the gather of the clients' stop().
RaceStop(c) ==
    /\ RaceFree(c)
    /\ race.is_running
    /\ RaceCommit([race EXCEPT !.is_running = FALSE,
                               !.calls[c] = [op |-> "stop", pc |-> "gather",
                                             pending |-> RaceVenues, waiting |-> {}]])

\* One client.stop() of the gather of call c begins: a client whose flag is
\* not set returns at once, a running client clears its flag and is
\* suspended while its session shuts down.
RaceClientStopBegin(c, e) ==
    /\ race.calls[c].op = "stop"
    /\ race.calls[c].pc = "gather"
    /\ e \in race.calls[c].pending
    /\ IF race.clients[e] = "running"
       THEN RaceCommit([race EXCEPT !.clients[e] = "stopping",
                                    !.calls[c].pending = @ \ {e},
                                    !.calls[c].waiting = @ \cup {e}])
       ELSE RaceCommit([race EXCEPT !.calls[c].pending = @ \ {e}])

\* A client.stop() of the gather of call c returns; the flag of the client
\* is what a client.start() has made of it meanwhile.
RaceClientStopEnd(c, e) ==
    /\ race.calls[c].op = "stop"
    /\ e \in race.calls[c].waiting
    /\ RaceCommit([race EXCEPT !.clients[e] = IF @ = "stopping" THEN "idle" ELSE @,
                               !.calls[c].waiting = @ \ {e}])

\* stop() after its gather: cancels the task self.arbitrage_task refers to,
\* when there is one, and awaits it.
RaceStopResume(c) ==
    /\ race.calls[c].op = "stop"
    /\ race.calls[c].pc = "gather"
    /\ race.calls[c].pending = {}
    /\ race.calls[c].waiting = {}
    /\ RaceCommit([race EXCEPT !.arbitrage_task = IF TaskOver(@) THEN @ ELSE "cancelled",
                               !.calls[c].pc = "await_task"])

\* stop() returns once the task it awaits is over.
RaceStopReturn(c) ==
    /\ race.calls[c].op = "stop"
    /\ race.calls[c].pc = "await_task"
    /\ TaskOver(race.arbitrage_task)
    /\ RaceCommit([race EXCEPT !.calls[c] = NoRaceCall])

\* One turn of the task of arbitrage_loop self.arbitrage_task refers to: it
\* scans while is_running and otherwise leaves the loop.
RaceArbitrageLoop ==
    /\ race.arbitrage_task \in {"created", "sleeping"}
    /\ race.arbitrage_task = "sleeping" => ~race.is_running
    /\ RaceCommit([race EXCEPT !.arbitrage_task = IF race.is_running
                                                  THEN "sleeping" ELSE "done"])

\* A task of arbitrage_loop without a reference leaves its loop.
RaceOrphanLoop ==
    /\ race.orphans > 0
    /\ ~race.is_running
    /\ RaceCommit([race EXCEPT !.orphans = @ - 1])

RaceNext ==
    \/ \E c \in 1..MaxCalls : RaceStart(c)
    \/ \E c \in 1..MaxCalls, e \in RaceVenues : RaceClientStart(c, e)
    \/ \E c \in 1..MaxCalls : RaceStartResume(c)
    \/ \E c \in 1..MaxCalls : RaceStop(c)
    \/ \E c \in 1..MaxCalls, e \in RaceVenues : RaceClientStopBegin(c, e)
    \/ \E c \in 1..MaxCalls, e \in RaceVenues : RaceClientStopEnd(c, e)
    \/ \E c \in 1..MaxCalls : RaceStopResume(c)
    \/ \E c \in 1..MaxCalls : RaceStopReturn(c)
    \/ RaceArbitrageLoop
    \/ RaceOrphanLoop

(***************************************************************************)
(* AsyncWorker: the worker thread, which creates its event loop and runs   *)
(* it, and the thread of the window, which submits coroutines, asks the    *)
(* loop to stop and joins the worker.                                      *)
(***************************************************************************)
\* The coroutines submitted that are followed.
MaxSubmitted == 2

\* The worker after __init__: the thread is not started, self.loop is None,
\* loop_ready is clear; queue holds the callbacks handed to the loop, caller
\* is the call the other thread is blocked in, submitted and ran count the
\* coroutines, asked tells that stop_loop() has been called.
NoWorker ==
    [thread |-> "new", loop |-> "None", loop_ready |-> FALSE, queue |-> <<>>,
     caller |-> "none", submitted |-> 0, ran |-> 0, asked |-> FALSE,
     joined |-> FALSE]

WorkerCommit(w) ==
    /\ worker' = w
    /\ UNCHANGED <<storeVars, managerVars, clientVars, engine, adapter, gui, overlap, race, delivery>>

\* Thread.start(): the worker thread exists and has not run yet.
WorkerStart ==
    /\ worker.thread = "new"
    /\ WorkerCommit([worker EXCEPT !.thread = "started"])

\* run(): self.loop = asyncio.new_event_loop().
WorkerNewLoop ==
    /\ worker.thread = "started"
    /\ WorkerCommit([worker EXCEPT !.thread = "loop_set", !.loop = "open"])

\* run(): set_event_loop and loop_ready.set().
WorkerReady ==
    /\ worker.thread = "loop_set"
    /\ WorkerCommit([worker EXCEPT !.thread = "running", !.loop_ready = TRUE])

\* run_forever() runs the next callback handed to the loop: a coroutine
\* submitted, or loop.stop, after which run_forever() returns.
WorkerCallback ==
    /\ worker.thread = "running"
    /\ worker.queue # <<>>
    /\ WorkerCommit(IF Head(worker.queue) = "loop.stop"
                    THEN [worker EXCEPT !.queue = Tail(@), !.thread = "stopped"]
                    ELSE [worker EXCEPT !.queue = Tail(@), !.ran = @ + 1])

\* run(): the finally closes the loop and the thread ends.
WorkerClose ==
    /\ worker.thread = "stopped"
    /\ WorkerCommit([worker EXCEPT !.thread = "ended", !.loop = "closed"])

\* The steps of the worker thread.
WorkerThread == WorkerNewLoop \/ WorkerReady \/ WorkerCallback \/ WorkerClose

\* start_task() or stop_task() is called: the thread of the window waits
\* for loop_ready.
SubmitBegin(op) ==
    /\ worker.thread # "new"
    /\ worker.caller = "none"
    /\ worker.submitted < MaxSubmitted
    /\ WorkerCommit([worker EXCEPT !.caller = op])

\* start_task() or stop_task() after loop_ready.wait(): with a loop the
\* coroutine is handed to it by run_coroutine_threadsafe, which raises on a
\* loop that is closed.
SubmitResume ==
    /\ worker.caller \in {"start_task", "stop_task"}
    /\ worker.loop_ready
    /\ WorkerCommit([worker EXCEPT
           !.caller = "none",
           !.submitted = @ + 1,
           !.queue = IF worker.loop = "closed" THEN @
                     ELSE Append(@, IF worker.caller = "start_task"
                                    THEN "start" ELSE "stop")])

\* stop_loop(): with a loop, loop.stop is handed to it by
\* call_soon_threadsafe; without one, nothing is done.
stop_loop ==
    /\ worker.thread # "new"
    /\ worker.caller = "none"
    /\ ~worker.asked
    /\ WorkerCommit([worker EXCEPT
           !.asked = TRUE,
           !.queue = IF worker.loop = "open" THEN Append(@, "loop.stop") ELSE @])

\* join() of the worker thread is called after stop_loop().
WorkerJoin ==
    /\ worker.asked
    /\ worker.caller = "none"
    /\ ~worker.joined
    /\ WorkerCommit([worker EXCEPT !.caller = "join"])

\* join() returns when the worker thread has ended.
WorkerJoinReturns ==
    /\ worker.caller = "join"
    /\ worker.thread = "ended"
    /\ WorkerCommit([worker EXCEPT !.caller = "none", !.joined = TRUE])

WorkerNext ==
    \/ WorkerStart
    \/ WorkerNewLoop
    \/ WorkerReady
    \/ WorkerCallback
    \/ WorkerClose
    \/ \E op \in {"start_task", "stop_task"} : SubmitBegin(op)
    \/ SubmitResume
    \/ stop_loop
    \/ WorkerJoin
    \/ WorkerJoinReturns

(***************************************************************************)
(* The deliveries of one session.  handle_message_loop processes the       *)
(* frames in the order of their arrival; for every quote notify_listener   *)
(* creates a task of async_callback, which the event loop runs after the   *)
(* tasks created before it; the task calls on_price_data_receive with the  *)
(* PriceData object of the symbol in self.data, which it holds by          *)
(* reference.                                                              *)
(***************************************************************************)
\* The frames of the session that are followed.
MaxFrames == 3

\* The venue of the session and the prices of its frames.
DeliveryVenue == "Bybit"
DeliveryPrices == {4, 5}

\* Nothing received: data is self.data of the client, frames the frames in
\* the order of their arrival, queue the tasks created and not yet run, each
\* with the number of its frame, delivered the numbers of the frames whose
\* task has run.
NoDelivery ==
    [data |-> [s \in Symbols |-> None], frames |-> <<>>, queue |-> <<>>,
     delivered |-> <<>>]

\* handle_message_loop receives a frame with a quote of symbol: the adapter
\* updates the PriceData of the symbol in place and notify_listener creates
\* the task of its delivery.
DeliveryFrame(symbol, price) ==
    /\ Len(delivery.frames) < MaxFrames
    /\ delivery' = [delivery EXCEPT
           !.data[symbol] = price,
           !.frames = Append(@, [symbol |-> symbol, price |-> price]),
           !.queue = Append(@, [n |-> Len(delivery.frames) + 1, symbol |-> symbol])]
    /\ UNCHANGED <<storeVars, managerVars, clientVars, engine, adapter, gui,
                   overlap, race, worker>>

\* The task t of a delivery runs: on_price_data_receive writes the
\* PriceData of its symbol, as it is by now, to the store.
DeliveryOf(t) ==
    /\ update_price_data(Quote(DeliveryVenue, t.symbol,
                               <<delivery.data[t.symbol], 1>>,
                               <<delivery.data[t.symbol], 1>>))
    /\ delivery' = [delivery EXCEPT
           !.queue = SelectSeq(@, LAMBDA u : u # t),
           !.delivered = Append(@, t.n)]
    /\ UNCHANGED <<managerVars, clientVars, engine, adapter, gui,
                   overlap, race, worker>>

\* An event loop that runs the task created last.
DeliveryRuns_Last ==
    /\ delivery.queue # <<>>
    /\ DeliveryOf(delivery.queue[Len(delivery.queue)])

\* The event loop runs the tasks in the order of their creation.
DeliveryRuns ==
    /\ delivery.queue # <<>>
    /\ DeliveryOf(Head(delivery.queue))

DeliveryNext ==
    \/ \E symbol \in Symbols, price \in DeliveryPrices : DeliveryFrame(symbol, price)
    \/ DeliveryRuns

\* The state after construction: an empty store, a manager that is not
\* running and has no task, clients that have never been started.
Init ==
    /\ df = <<>>
    /\ clock = 0
    /\ call = NoCall
    /\ written = <<>>
    /\ manager = [is_running |-> FALSE, arbitrage_task |-> "none"]
    /\ managerCall = NoManagerCall
    /\ clients = [e \in Exchange |-> "idle"]
    /\ client = [is_running |-> FALSE, reconnect_attempt |-> 0,
                 websocket |-> "None", websocket_task |-> "None",
                 ping_task |-> "None"]
    /\ loop = [pc |-> "none", cancel |-> FALSE, after |-> "return", delay |-> 0,
                                symbols |-> "unset"]
    /\ ping = "none"
    /\ socket = "none"
    /\ listener = [open |-> FALSE, ends |-> -1, trace |-> <<>>,
                   run |-> [message |-> NoFrame, out |-> <<>>]]
    /\ clientCall = [call |-> NoClientCall, at |-> "none", last |-> "none"]
    /\ engine = NoEngine
    /\ adapter = NoAdapter
    /\ gui = NoGui
    /\ overlap = NoOverlap
    /\ race = NoRace
    /\ worker = NoWorker
    /\ delivery = NoDelivery

ManagerNext ==
    \/ \E exchange_to_monitor \in MonitoredLists :
           ManagerConstruct(exchange_to_monitor)
    \/ ManagerStart
    \/ \E e \in Exchange : ClientStart(e)
    \/ ManagerStartResume
    \/ ArbitrageLoop
    \/ \E e \in Exchange : OnPriceDataReceive(e)
    \/ ManagerStop
    \/ \E e \in Exchange : ClientStopBegin(e)
    \/ \E e \in Exchange : ClientStopEnd(e)
    \/ ManagerStopResume
    \/ ManagerStopReturn
    \/ Tick

SpecManager == Init /\ [][ManagerNext]_vars

(***************************************************************************)
(* The manager with a venue that cannot be reached.  The client of that   *)
(* venue is followed through its sessions; the other clients deliver.     *)
(***************************************************************************)
\* The venue that refuses every connection.
Unreachable == "Bybit"

\* The client.start() of the gather for the client that is followed.
SessionStart ==
    /\ ClientStarted(Unreachable)
    /\ CommitClient(start(Run))
    /\ UNCHANGED <<storeVars, otherVars>>

OutageNext ==
    \/ ManagerStart
    \/ \E e \in Exchange \ {Unreachable} : ClientStart(e)
    \/ SessionStart
    \/ ManagerStartResume
    \/ ArbitrageLoop
    \/ \E e \in Exchange \ {Unreachable} : OnPriceDataReceive(e)
    \/ WebsocketLoopBegin
    \/ \E outcome \in DialOutcomes \ {"ok"} : Dial(outcome)
    \/ BackoffExpires

\* The event loop runs the coroutines that are ready and fires the timers:
\* the start() of a client in the gather, the start() of the manager after
\* it, the sleep of the scanner.
SpecOutage ==
    /\ Init
    /\ [][OutageNext]_vars
    /\ WF_vars(\E e \in Exchange \ {Unreachable} : ClientStart(e))
    /\ WF_vars(SessionStart)
    /\ WF_vars(ManagerStartResume)
    /\ WF_vars(ArbitrageLoop)

\* An adapter through its sessions: fetch, subscribe, frames.
SpecAdapter == Init /\ [][AdapterNext]_vars

\* The window under the clicks of its user and the worker of its
\* application.
SpecGui == Init /\ [][GuiNext]_vars

\* The engine over a store the venues stream into.
SpecEngine == Init /\ [][EngineNext]_vars

\* The engine over a store of one symbol, on an event loop whose timers
\* fire: a sleep of the scanner ends.
EngineFairNext ==
    \/ EngineStart
    \/ \E raises \in EngineOutcomes : arbitrage_loop(raises)
    \/ EngineStop
    \/ EngineStopReturn
    \/ EngineUpdateOne

SpecEngineFair ==
    /\ Init
    /\ [][EngineFairNext]_vars
    /\ WF_vars(\E raises \in EngineOutcomes : arbitrage_loop(raises))

(***************************************************************************)
(* One client under its calls, its connection and its venue.               *)
(***************************************************************************)
ClientNext ==
    \/ ClientStartCall
    \/ WebsocketLoopBegin
    \/ \E outcome \in DialOutcomes : Dial(outcome)
    \/ \E symbols \in FetchOutcomes : FetchSymbols(symbols)
    \/ SubscribeSymbols
    \/ \E frame \in Frames : Recv(frame)
    \/ CloseDone
    \/ BackoffExpires
    \/ LoopCancelled
    \/ \E how \in Closures : RemoteClose(how)
    \/ RecvTimeout
    \/ PingLoop
    \/ \E raises \in BOOLEAN : SendPing(raises)
    \/ ClientStopCall
    \/ StopResume

SpecClient == Init /\ [][ClientNext]_vars

\* One session whose quotes are delivered to the store by tasks.
SpecDelivery == Init /\ [][DeliveryNext]_vars

\* The engine scanning a store whose prices vary.
SpecSnapshot == Init /\ [][SnapshotNext]_vars

\* One client whose caller does not await a stop() before its next call.
SpecOverlap == Init /\ [][OverlapNext]_vars

\* A manager whose caller does not await a call before its next call.
SpecRace == Init /\ [][RaceNext]_vars

\* The worker thread and the thread that calls it.
SpecWorker == Init /\ [][WorkerNext]_vars

\* The same with threads that are scheduled: the worker thread takes its
\* next step whenever it has one, and a join() returns once the thread it
\* waits for has ended.
SpecWorkerFair ==
    SpecWorker /\ WF_vars(WorkerThread) /\ WF_vars(WorkerJoinReturns)

\* The same client on an event loop whose timers fire and whose closures
\* complete: a sleep of the backoff ends, a closing handshake ends.
SpecClientFair ==
    SpecClient /\ WF_vars(BackoffExpires) /\ WF_vars(CloseDone)

(***************************************************************************)
(* The store under the streams of the venues.                              *)
(***************************************************************************)
\* Three venues stream one symbol into the store while it is scanned.
UpdateWide ==
    /\ \E price_data \in WideQuotes : update_price_data(price_data)
    /\ UNCHANGED <<managerVars, clientVars, otherVars>>
ScanWide == Scan({DefaultMinProfit}) /\ UNCHANGED <<managerVars, clientVars, otherVars>>
WideNext == UpdateWide \/ ScanWide \/ Tick
SpecWide == Init /\ [][WideNext]_vars

\* Two venues stream one symbol into the store while it is scanned.
UpdatePair ==
    /\ \E price_data \in PairQuotes : update_price_data(price_data)
    /\ UNCHANGED <<managerVars, clientVars, otherVars>>
ScanPair == Scan(MinProfits) /\ UNCHANGED <<managerVars, clientVars, otherVars>>
PairNext == UpdatePair \/ ScanPair \/ Tick
SpecPair == Init /\ [][PairNext]_vars

\* Two venues stream one symbol, at times at a price of zero, into the
\* store while it is scanned.
UpdateZero ==
    /\ \E price_data \in ZeroQuotes : update_price_data(price_data)
    /\ UNCHANGED <<managerVars, clientVars, otherVars>>
ScanZero == Scan({DefaultMinProfit}) /\ UNCHANGED <<managerVars, clientVars, otherVars>>
ZeroNext == UpdateZero \/ ScanZero \/ Tick
SpecZero == Init /\ [][ZeroNext]_vars

\* Updates and lookups of the store.
UpdateStore ==
    /\ \E price_data \in StoreQuotes : update_price_data(price_data)
    /\ UNCHANGED <<managerVars, clientVars, otherVars>>
Get ==
    /\ \E k \in StoreKeys : get_data_for_symbol(k[1], k[2])
    /\ UNCHANGED <<managerVars, clientVars, otherVars>>
StoreNext == UpdateStore \/ Get \/ Tick
SpecStore == Init /\ [][StoreNext]_vars

(***************************************************************************)
(* Properties of the scan.  After a scan, call holds its arguments and its *)
(* result and df is the frame it has read.                                 *)
(***************************************************************************)
ScanDone == call.op = "scan"
Returned == {call.ret[n] : n \in 1..Len(call.ret)}
Stored(exchange, symbol) == {df[i] : i \in {j \in 1..Len(df) :
                                 df[j].exchange = exchange /\ df[j].symbol = symbol}}
IsFresh(r) == call.arg.current_utc_time - r.timestamp_utc <= call.arg.max_data_age_seconds
TwoSided(r) == r.bid_price # NaN /\ r.ask_price # NaN
FreshOf(symbol) == {i \in 1..Len(df) : df[i].symbol = symbol /\ IsFresh(df[i])}
ValidOf(symbol) == {i \in FreshOf(symbol) : TwoSided(df[i])}
\* (bid of row j - ask of row i) / ask of row i >= bound, for a positive ask
PairAtLeast(i, j, bound) ==
    (df[j].bid_price - df[i].ask_price) * bound.den >= bound.num * df[i].ask_price
PassingPairs(symbol) ==
    {p \in ValidOf(symbol) \X ValidOf(symbol) :
        /\ df[p[1]].exchange # df[p[2]].exchange
        /\ PairAtLeast(p[1], p[2], call.arg.min_profit_percent)}

\* C1: no returned opportunity uses a quote older, at the scan's now, than
\* max_data_age_seconds: both sides are stored quotes that are fresh and the
\* reported update times are theirs; a symbol with fewer than two fresh
\* quotes (one venue stale, one fresh) yields no opportunity.
C1_NoStaleQuote ==
    ScanDone =>
        /\ \A o \in Returned :
            /\ \E r \in Stored(o.buy_exchange, o.symbol) :
                   IsFresh(r) /\ o.last_updated_buy = r.timestamp_utc
            /\ \E r \in Stored(o.sell_exchange, o.symbol) :
                   IsFresh(r) /\ o.last_updated_sell = r.timestamp_utc
        /\ \A symbol \in Symbols :
            Cardinality(FreshOf(symbol)) < 2 => \A o \in Returned : o.symbol # symbol

\* A scan returned an opportunity for a symbol of which another venue holds a
\* stale quote.
C1_Witness ==
    /\ ScanDone
    /\ \E o \in Returned : \E i \in 1..Len(df) :
           df[i].symbol = o.symbol /\ ~IsFresh(df[i]) /\ TwoSided(df[i])

\* C2: every returned opportunity has fractional profit strictly below
\* MAX_ACCEPTABLE_PROFIT_PERCENT.
C2_ProfitBelowCap ==
    ScanDone =>
        \A o \in Returned :
            (o.sell_price - o.buy_price) * MAX_ACCEPTABLE_PROFIT_PERCENT.den
                < MAX_ACCEPTABLE_PROFIT_PERCENT.num * o.buy_price

LowestAsk(symbol) ==
    CHOOSE i \in ValidOf(symbol) : \A j \in ValidOf(symbol) :
        \/ df[i].ask_price < df[j].ask_price
        \/ df[i].ask_price = df[j].ask_price /\ i <= j
HighestBid(symbol) ==
    CHOOSE i \in ValidOf(symbol) : \A j \in ValidOf(symbol) :
        \/ df[i].bid_price > df[j].bid_price
        \/ df[i].bid_price = df[j].bid_price /\ i <= j

C4_DistinctVenues ==
    ScanDone =>
        /\ \A o \in Returned : o.buy_exchange # o.sell_exchange
        /\ \A symbol \in Symbols :
            Cardinality({df[i].exchange : i \in {j \in 1..Len(df) : df[j].symbol = symbol}}) <= 1
                => \A o \in Returned : o.symbol # symbol

\* A scan returned an opportunity although one venue's own bid exceeds its
\* own ask by more than the threshold.
C4_Witness ==
    /\ ScanDone
    /\ Returned # {}
    /\ \E i \in ValidOf(SortedSymbols[1]) : PairAtLeast(i, i, call.arg.min_profit_percent)

\* C5: a returned opportunity buys at the stored ask of the buy venue and
\* sells at the stored bid of the sell venue, its fractional profit
\* (sell_price - buy_price) / buy_price is at least min_profit_percent, and
\* profit_percent is 100 times that fraction.
C5_ProfitThreshold ==
    ScanDone =>
        \A o \in Returned :
            /\ \E r \in Stored(o.buy_exchange, o.symbol) : o.buy_price = r.ask_price
            /\ \E r \in Stored(o.sell_exchange, o.symbol) : o.sell_price = r.bid_price
            /\ o.buy_price > 0
            /\ (o.sell_price - o.buy_price) * call.arg.min_profit_percent.den
                   >= call.arg.min_profit_percent.num * o.buy_price
            /\ o.profit_percent.den > 0
            /\ o.profit_percent.num * o.buy_price
                   = 100 * (o.sell_price - o.buy_price) * o.profit_percent.den

\* A scan with the higher threshold returned an opportunity while the store
\* also holds a venue pair whose profit is positive and below the threshold.
C5_Witness ==
    /\ ScanDone
    /\ Returned # {}
    /\ call.arg.min_profit_percent # DefaultMinProfit
    /\ \E i, j \in ValidOf(SortedSymbols[1]) :
           /\ df[j].bid_price > df[i].ask_price
           /\ ~PairAtLeast(i, j, call.arg.min_profit_percent)

\* The frame without the rows that lack a bid price or an ask price.
TwoSidedRows(d) == SelectSeq(d, TwoSided)

\* C6: neither side of a returned opportunity is a stored quote lacking a
\* bid or an ask, and the scan returns what it returns for the same store
\* without the one-sided quotes.
C6_OneSidedIgnored ==
    ScanDone =>
        /\ \A o \in Returned :
            /\ \E r \in Stored(o.buy_exchange, o.symbol) : TwoSided(r)
            /\ \E r \in Stored(o.sell_exchange, o.symbol) : TwoSided(r)
        /\ call.ret = Opportunities(TwoSidedRows(df), call.arg.current_utc_time,
                                    call.arg.min_profit_percent,
                                    call.arg.max_data_age_seconds)

\* A scan returned an opportunity for a symbol of which a third venue holds
\* a fresh one-sided quote.
C6_Witness ==
    /\ ScanDone
    /\ \E o \in Returned : \E i \in FreshOf(o.symbol) : ~TwoSided(df[i])

(***************************************************************************)
(* Properties of update and lookup.                                        *)
(***************************************************************************)
Keys(d) == {<<d[i].exchange, d[i].symbol>> : i \in 1..Len(d)}
\* A field read back from the frame: the number written, NaN for None.
ReadsAs(stored, given) == IF given = None THEN stored = NaN ELSE stored = given

StopBegun ==
    /\ managerCall.op = "stop"
    /\ \E e \in DOMAIN clients : clients[e] = "stopping" \/ e \notin managerCall.pending

\* C8: from the moment stop() begins to stop its first client, the task
\* of the scanner is over, so that no scan is made from then on.
C8_ScannerStoppedFirst == StopBegun => TaskOver(manager.arbitrage_task)

(***************************************************************************)
(* Properties of the sessions of a client.                                 *)
(***************************************************************************)
\* The task of websocket_loop is inside a session: between a dial that
\* succeeded and the end of run_websocket_session.
InSession == loop.pc \in {"fetching", "subscribing", "streaming", "closing"}

\* C9: the callbacks of every session are on_connected, then data and
\* errors, then one on_disconnected: on_connected comes outside a session,
\* every other callback inside one, and the listener is told of the end of
\* every session it was told the start of.
C9_CallbackSequence ==
    /\ \A i \in 1..Len(listener.trace) :
           listener.trace[i].open = (listener.trace[i].method # "on_connected")
    /\ ~InSession => ~listener.open

\* The client is not running and no call is in flight.
Idle == ~client.is_running /\ clientCall.call.op = "none"

\* C10: when the client is not running and no stop() is in flight, the
\* tasks of websocket_loop and of ping_loop are over, no connection is open
\* and the references are cleared; and until a start() nothing of the
\* client changes, whether a stop() is called or not.
C10_StopTerminates ==
    /\ [](Idle => /\ TaskOver(loop.pc)
                  /\ TaskOver(ping)
                  /\ socket # "open"
                  /\ client.websocket = "None"
                  /\ client.websocket_task = "None"
                  /\ client.ping_task = "None")
    /\ [][Idle /\ ~client'.is_running =>
              UNCHANGED <<client, loop, ping, socket, listener>>]_vars

\* A stop() has returned that found the session subscribing.
C10_Witness ==
    /\ Idle
    /\ clientCall.at = "subscribing"
    /\ loop.pc = "cancelled"
    /\ ping = "cancelled"
(***************************************************************************)
(* Properties of start().                                                  *)
(***************************************************************************)
\* C11: a start() on a running client changes nothing of the client, so
\* it makes no task and keeps the counter of attempts; a start() on a
\* client that is not running makes the task of websocket_loop, which has
\* not begun to dial when start() returns.
C11_StartIdempotent ==
    [][/\ client.is_running /\ clientCall.call.op = "none"
          /\ clientCall'.call.op = "none" /\ clientCall'.last \in {"start", "start_noop"}
          /\ clientCall'.last # clientCall.last
          => /\ UNCHANGED <<client, loop, ping, socket>>
             /\ listener'.run.out = <<>>
             /\ listener'.trace = listener.trace
             /\ clientCall'.last = "start_noop"
       /\ ~client.is_running /\ clientCall'.last = "start" /\ client'.is_running
          => /\ loop'.pc = "created"
             /\ TaskOver(loop.pc)
             /\ client'.websocket_task = "task"
             /\ client'.reconnect_attempt = 0
             /\ listener'.run.out = <<>>
             /\ UNCHANGED <<ping, socket>>]_vars

\* A start() has returned at its guard with the counter of attempts set.
C11_Witness ==
    /\ clientCall.last = "start_noop"
    /\ client.is_running
    /\ client.reconnect_attempt > 0
    /\ loop.pc = "backoff"
(***************************************************************************)
(* Properties of the manager's start() and stop().                         *)
(***************************************************************************)
\* C12: a start() of the manager that is running and a stop() of the
\* manager that is not running return at once and change nothing: no
\* client is started or stopped and no task of the scanner is made, so
\* start; start; stop; stop ends as start; stop does.
C12_ManagerIdempotent ==
    [][/\ /\ manager.is_running
          /\ managerCall'.last \in {"start", "start_noop"}
          /\ managerCall'.last # managerCall.last
          => /\ managerCall'.last = "start_noop"
             /\ managerCall'.op = "none"
             /\ UNCHANGED <<manager, clients>>
       /\ /\ ~manager.is_running
          /\ managerCall'.last \in {"stop", "stop_noop"}
          /\ managerCall'.last # managerCall.last
          => /\ managerCall'.last = "stop_noop"
             /\ managerCall'.op = "none"
             /\ UNCHANGED <<manager, clients>>]_vars

\* A stop() has returned at its guard after a start() and a stop().
C12_Witness ==
    /\ managerCall.last = "stop_noop"
    /\ ~manager.is_running
    /\ manager.arbitrage_task = "cancelled"
    /\ DOMAIN clients = Exchange
    /\ \A e \in Exchange : clients[e] = "idle"
(***************************************************************************)
(* Properties of the reconnection.                                         *)
(***************************************************************************)
\* The latest call of the client is a stop() that found it running.
StopCalled == clientCall.last = "stop"

\* C13: while the client runs, every end of a session and every failed
\* dial, which leave websocket_loop in its backoff or closing the
\* connection, is followed by another dial, whatever the number of
\* attempts; and the task of websocket_loop ends only after a stop().
C13_ReconnectsForever ==
    /\ (loop.pc \in {"backoff", "closing"} /\ ~StopCalled)
           ~> (loop.pc = "dialing" \/ StopCalled)
    /\ [][~TaskOver(loop.pc) /\ TaskOver(loop'.pc) =>
              StopCalled /\ ~client.is_running]_vars

\* The client dials again after more failures than the attempts allowed.
C13_Witness ==
    /\ loop.pc = "dialing"
    /\ client.is_running
    /\ client.reconnect_attempt > RECONNECT_MAX_ATTEMPTS_PER_SESSION
\* C14: the backoff sleeps min(2^a, 120) seconds, a being the counter of
\* attempts before the increment of that backoff: 1 second after a
\* session that connected, then 2, 4, ... up to 120.
C14_DelayFromOldCounter ==
    loop.pc = "backoff" =>
        loop.delay = Min(2 ^ (client.reconnect_attempt - 1), RECONNECT_MAX_DELAY_SECONDS)
\* The latest callback the listener was given.
LastCallback ==
    IF listener.trace = <<>> THEN "none"
    ELSE listener.trace[Len(listener.trace)].method

\* C15: after every on_connected the counter of attempts is 0, whatever
\* the number of backoffs before that connect.
C15_CounterResetOnConnect ==
    LastCallback = "on_connected" => client.reconnect_attempt = 0

\* A connect that two backoffs preceded, the counter back at 0.
C15_Witness ==
    /\ LastCallback = "on_connected"
    /\ loop.pc = "fetching"
    /\ loop.delay = 4
    /\ client.reconnect_attempt = 0
\* C16: when the counter of attempts exceeds
\* RECONNECT_MAX_ATTEMPTS_PER_SESSION on a running client, the run that
\* brings it there gives the listener the on_error that reports it, and
\* websocket_loop goes on to its backoff.
C16_CapReportedWhileRunning ==
    /\ client.is_running
    /\ loop.pc = "backoff"
    /\ client.reconnect_attempt > RECONNECT_MAX_ATTEMPTS_PER_SESSION
    => \E i \in 1..Len(listener.trace) : listener.trace[i].about = "attempts"
\* C17: every on_data_received comes after the on_connected of its
\* session and before its on_disconnected: the listener is inside a
\* session whenever it is given quotes.
C17_DataInsideSession ==
    \A i \in 1..Len(listener.trace) :
        listener.trace[i].method = "on_data_received" => listener.trace[i].open

\* Quotes reach the listener from a streaming session.
C17_Witness ==
    /\ LastCallback = "on_data_received"
    /\ listener.open
    /\ loop.pc = "streaming"
\* C18: after one on_connected the listener is given at most one
\* on_disconnected before the next on_connected.
C18_OneDisconnectPerSession == listener.ends <= 1
(***************************************************************************)
(* Properties of the errors of a session.                                  *)
(***************************************************************************)
\* C19: when fetch_symbols returns no symbols the listener is given
\* on_error, the connection is closed, the session neither subscribes
\* nor reads a frame, and a client that still runs goes to its backoff.
C19_EmptySymbolsEndSession ==
    /\ [](loop.symbols = "none" => loop.pc \notin {"subscribing", "streaming"})
    /\ [][/\ loop.pc = "fetching" /\ loop'.pc # "fetching" /\ loop'.symbols = "none"
             => /\ \E i \in 1..Len(listener'.trace) :
                       listener'.trace[i].method = "on_error"
                /\ socket' # "open"
                /\ loop'.pc \in {"closing", "backoff", "done"}
          /\ /\ loop.symbols = "none" /\ loop.pc = "closing" /\ loop'.pc # "closing"
             /\ client'.is_running
             => loop'.pc = "backoff"]_vars

\* A running client in its backoff after a session without symbols.
C19_Witness ==
    /\ loop.symbols = "none"
    /\ loop.pc = "backoff"
    /\ client.is_running
    /\ socket # "open"
\* A frame that is not JSON, or of a wrong type, or without a field the
\* adapter reads; and the answer to a subscribe that is refused.
FailsToDecode(frame) ==
    \/ frame.json \in {"invalid", "array"}
    \/ frame.json = "object" /\ frame.topic # "" /\
          (\/ frame.data # "object"
           \/ frame.symbol = ""
           \/ frame.topic = "orderbook" /\ frame.book \in {"missing", "text"})
SubscribeNack(frame) ==
    frame.json = "object" /\ frame.op = "subscribe" /\ ~frame.success

\* C20: the run that receives a frame that fails to decode, or a refused
\* subscribe, gives the listener on_error and no quotes, so that the store
\* is not updated, and leaves the session streaming on its connection.
C20_DecodeErrorsReported ==
    FailsToDecode(listener.run.message) \/ SubscribeNack(listener.run.message)
    => /\ \E i \in 1..Len(listener.run.out) : listener.run.out[i] = "on_error"
       /\ \A i \in 1..Len(listener.run.out) : listener.run.out[i] # "on_data_received"
       /\ loop.pc = "streaming"
       /\ socket = "open"

(***************************************************************************)
(* Properties of the manager built without clients.                        *)
(***************************************************************************)
\* C21: a manager with an empty set of clients refuses to start: once its
\* start() has returned it is not running and has made no task of the
\* scanner.
C21_EmptyClientSetRefused ==
    DOMAIN clients = {} /\ managerCall.op = "none"
    => ~manager.is_running /\ manager.arbitrage_task = "none"

(***************************************************************************)
(* Properties of ArbitrageEngine.                                          *)
(***************************************************************************)
\* C22: a scan calls arbitrage_callback at most once, with the whole list
\* of the opportunities it found, and not at all when it found none.
C22_CallbackOncePerScan ==
    /\ Len(engine.scan.invoked) <= 1
    /\ engine.scan.found = <<>> => engine.scan.invoked = <<>>
    /\ \A i \in 1..Len(engine.scan.invoked) :
           engine.scan.invoked[i].rows = engine.scan.found

\* C23: while the engine runs, the task of arbitrage_loop is never over,
\* and a turn in which the scan or the callback raised is followed by
\* another scan unless the engine is stopped.
C23_ScannerSurvivesExceptions ==
    /\ [](engine.is_running => engine.arbitrage_task \in {"created", "sleeping"})
    /\ \A t \in {0, 1} :
           (engine.is_running /\ engine.scan.raised # "none" /\ engine.scan.turns = t)
           ~> (engine.scan.turns # t \/ ~engine.is_running)

\* The callback has raised on the opportunity of a scan and the task sleeps
\* until its next scan.
C23_Witness ==
    /\ engine.is_running
    /\ engine.scan.raised = "callback"
    /\ Len(engine.scan.found) = 1
    /\ Len(engine.scan.invoked) = 1
    /\ engine.arbitrage_task = "sleeping"

\* C24: a start() of a running engine and a stop() of an engine that is not
\* running change nothing; a task is made only when the previous one is
\* over; once stop() has returned the task is over, and no scan is made and
\* no callback is called while the engine is not running.
C24_EngineStartStop ==
    /\ [](~engine.is_running /\ engine.call = "none" => TaskOver(engine.arbitrage_task))
    /\ [][/\ engine.is_running /\ engine'.last \in {"start", "start_noop"}
             /\ engine'.last # engine.last
             => engine' = [engine EXCEPT !.last = "start_noop"]
          /\ ~engine.is_running /\ engine'.last \in {"stop", "stop_noop"}
             /\ engine'.last # engine.last
             => engine' = [engine EXCEPT !.last = "stop_noop"]
          /\ engine'.arbitrage_task = "created" /\ engine.arbitrage_task # "created"
             => TaskOver(engine.arbitrage_task)
          /\ ~engine.is_running => engine'.scan = engine.scan]_vars

\* A stop() has returned that cancelled a task whose latest scan called the
\* callback.
C24_Witness ==
    /\ engine.last = "stop"
    /\ engine.call = "none"
    /\ engine.arbitrage_task = "cancelled"
    /\ engine.scan.invoked # <<>>

(***************************************************************************)
(* Properties of the manager under the outage of a venue.                  *)
(***************************************************************************)
\* C25: with a venue that refuses every connection, a start() of the
\* manager returns with the task of the scanner made, a quote that reaches
\* the store is followed by a scan, and the other clients that run can
\* deliver whatever the state of the client that cannot connect.
C25_OutageBlocksNothing ==
    /\ managerCall.op = "start" ~> (managerCall.op = "none" /\ manager.arbitrage_task # "none")
    /\ (manager.is_running /\ call.op = "update") ~> call.op = "scan"
    /\ [](\A e \in Exchange \ {Unreachable} :
              clients[e] = "running" => ENABLED OnPriceDataReceive(e))

\* The client that cannot connect sleeps in its third backoff while the
\* manager runs and has scanned the quotes of the other venues.
C25_Witness ==
    /\ managerCall.op = "none"
    /\ manager.is_running
    /\ loop.pc = "backoff"
    /\ client.reconnect_attempt >= 3
    /\ socket # "open"
    /\ call.op = "scan"
    /\ Len(df) = 2

(***************************************************************************)
(* Properties of the subscription and of the quotes of the adapters.       *)
(***************************************************************************)
\* The arguments of the frames sent, one after the other.
RECURSIVE Concat(_)
Concat(frames) ==
    IF frames = <<>> THEN <<>> ELSE Head(frames) \o Concat(Tail(frames))

\* C26: every subscribe frame of Bybit has at most MAX_ARGS_PER_MESSAGE
\* arguments, and when no send failed the arguments of the frames, in the
\* order sent, are the list of arguments: none is lost, none is repeated.
C26_BybitChunksComplete ==
    adapter.exchange = "Bybit" /\ adapter.subscribed
    => /\ \A i \in 1..Len(adapter.sent) :
              Len(adapter.sent[i]) \in 1..MAX_ARGS_PER_MESSAGE
       /\ ~adapter.failed =>
              /\ Len(Concat(adapter.sent)) = 2 * adapter.symbols
              /\ \A s \in 1..adapter.symbols :
                     /\ Concat(adapter.sent)[2 * s - 1] = [topic |-> "tickers", symbol |-> s]
                     /\ Concat(adapter.sent)[2 * s] = [topic |-> "orderbook.1", symbol |-> s]

\* Bybit has subscribed to 25 symbols and no send failed.
C26_Witness ==
    /\ adapter.exchange = "Bybit"
    /\ adapter.subscribed
    /\ ~adapter.failed
    /\ adapter.symbols = 25
    /\ Len(adapter.sent) = 5

\* C27: for N symbols Bybit sends ceil(N / 10) frames, and frame i holds the
\* order-book arguments of the i-th block of at most 10 symbols, in order;
\* so 25 symbols give 3 frames of 10, 10 and 5 arguments.
C27_BybitFramePerTenSymbols ==
    adapter.exchange = "Bybit" /\ adapter.subscribed /\ ~adapter.failed
    => /\ Len(adapter.sent) = (adapter.symbols + 9) \div 10
       /\ \A i \in 1..Len(adapter.sent) :
              adapter.sent[i] =
                  [k \in 1..Min(10, adapter.symbols - 10 * (i - 1)) |->
                      [topic |-> "orderbook.1", symbol |-> 10 * (i - 1) + k]]

\* C28: every subscribe message of Gate.io has at most 10 symbols in its
\* payload.
C28_GateioPayloadAtMostTen ==
    adapter.exchange = "Gate.io"
    => \A i \in 1..Len(adapter.sent) : Len(adapter.sent[i].payload) <= 10

\* C29: a quote passed to the data callback has a bid price and an ask
\* price, and Bybit passes none for a frame that lacks a side.
C29_QuotesHaveBothSides ==
    /\ \A i \in 1..Len(adapter.delivered) :
           /\ adapter.delivered[i].bid_price # "None"
           /\ adapter.delivered[i].ask_price # "None"
    /\ adapter.exchange = "Bybit" /\ adapter.delivered # <<>>
       => adapter.frame.topic = "orderbook" /\ adapter.frame.book = "ok"

(***************************************************************************)
(* Properties of the shutdown of the window.                               *)
(***************************************************************************)
\* C30: stop_loop is called only when no start() or stop() of the
\* application is in flight, so that from its call on none is, and
\* finalize_shutdown runs at most once.
C30_LoopStoppedAfterTasks ==
    /\ gui.loop # "running" => gui.tasks = <<>>
    /\ gui.finalized <= 1

(***************************************************************************)
(* Properties of the sessions of a client and of their tasks.              *)
(***************************************************************************)
\* C35: every delay of the backoff is at least 1 second and at most
\* RECONNECT_MAX_DELAY_SECONDS, and over consecutive failed attempts with
\* no connect between them the delays never decrease.
C35_BackoffDelayBounded ==
    [][loop'.pc = "backoff" /\ loop.pc # "backoff"
       => /\ loop'.delay >= 1
          /\ loop'.delay <= RECONNECT_MAX_DELAY_SECONDS
          /\ client.reconnect_attempt > 0 => loop'.delay >= loop.delay]_vars

\* The backoff after so many failed attempts that the limit applies.
C35_Witness ==
    /\ loop.pc = "backoff"
    /\ client.reconnect_attempt >= 7
    /\ loop.delay = RECONNECT_MAX_DELAY_SECONDS

\* C31: at most one send is in progress on the socket of a client at any
\* time: the send of a ping by the heartbeat and a send of subscribe_symbols
\* are never both in flight.
C31_OneSendAtATime == Cardinality(Sends) <= 1

\* The tasks of websocket_loop that are alive, and those of ping_loop.
LoopsAlive == {i \in 1..MaxTasks : OverlapAlive(overlap.tasks[i].pc)}
PingsAlive == {p \in 1..MaxPings : overlap.pings[p] = "alive"}

\* Every call of start() and stop() has returned, and the last call to
\* begin was a stop().
StoppedLast ==
    /\ \A c \in 1..MaxStops : overlap.stops[c].pc = "none"
    /\ overlap.last = "stop"

\* C36: however the calls of start() and stop() of a client interleave, a
\* start() within a suspended stop() included, at most one task of
\* websocket_loop is alive; and when every call has returned and a stop()
\* was the last to begin, no task of websocket_loop or of ping_loop is
\* alive and no connection is open.
C36_OneSupervisorLoop ==
    /\ Cardinality(LoopsAlive) <= 1
    /\ StoppedLast => /\ LoopsAlive = {}
                      /\ PingsAlive = {}
                      /\ \A i \in 1..MaxTasks : overlap.sockets[i] # "open"

\* C32: the task of ping_loop is alive only inside the session that made
\* it: when a session ends, by an error, by the closure of the other side,
\* by an empty list of symbols or by stop(), its task of ping_loop is over
\* or cancelled; and a client never has two tasks of ping_loop alive.
C32_HeartbeatWithinSession ==
    /\ \A p \in PingsAlive : overlap.tasks[overlap.owners[p]].pc = "session"
    /\ Cardinality(PingsAlive) <= 1

\* No call of the manager is in flight.
NoRaceCalls == \A c \in 1..MaxCalls : race.calls[c].op = "none"

C39_StopLoopEndsWorker ==
    /\ worker.asked ~> worker.thread = "ended"
    /\ worker.caller = "join" ~> worker.joined
    /\ [][worker'.submitted > worker.submitted
          => worker.loop # "None" /\ worker.loop_ready]_vars

(***************************************************************************)
(* Properties of the scan over quotes at a price of zero.                  *)
(***************************************************************************)
\* C40: no opportunity the scan returns has a buy price that is zero or
\* negative: a quote stored with an ask of 0 is not taken as the buy side,
\* so the profit is never divided by a divisor that is not positive.
C40_BuyPricePositive ==
    /\ call.op # "scan_raised"
    /\ call.op = "scan" =>
           /\ ~DividesByZero(df, call.arg.current_utc_time, call.arg.max_data_age_seconds)
           /\ \A i \in 1..Len(call.ret) : call.ret[i].buy_price > 0

(***************************************************************************)
(* Properties of the order of the scans and of the deliveries.             *)
(***************************************************************************)
\* C33: a scan sees one state of the store: after a turn of the loop, what
\* it found is what the store as it is gives for the time of the scan, and
\* the prices read again for every opportunity reported are those of the
\* rows the opportunity was computed from.
C33_ScanSeesOneState ==
    call.op = "scan" /\ engine.scan.raised # "scan" =>
        /\ engine.scan.found = call.ret
        /\ engine.scan.found = Opportunities(df, call.arg.current_utc_time,
                                             call.arg.min_profit_percent,
                                             call.arg.max_data_age_seconds)
        /\ \A i \in 1..Len(engine.scan.invoked) :
               LET details == engine.scan.invoked[i].details
               IN  /\ details.buy_ask = details.buy_price
                   /\ details.sell_bid = details.sell_price
                   /\ details = Details(df, engine.scan.found[i])

\* A scan has reported an opportunity with the prices of its two venues
\* read again: bought at an ask of 4, sold at a bid of 8.
C33_Witness ==
    /\ call.op = "scan"
    /\ engine.scan.invoked # <<>>
    /\ engine.scan.invoked[1].details.buy_ask = 4
    /\ engine.scan.invoked[1].details.sell_bid = 8
    /\ engine.scan.invoked[1].details.buy_bid # engine.scan.invoked[1].details.sell_ask

\* The row of the store for symbol of the venue of the session.
DeliveredRow(symbol) == GetResult(df, DeliveryVenue, symbol)

\* C34: the deliveries of a session reach the store in the order of arrival
\* of their frames, each by a task of its own and none before an earlier
\* one; so once the frames of a key have been delivered the store holds the
\* values of the latest of them.
C34_DeliveriesInOrder ==
    /\ \A i \in 1..Len(delivery.delivered) : delivery.delivered[i] = i
    /\ \A symbol \in Symbols :
           /\ \E i \in 1..Len(delivery.frames) : delivery.frames[i].symbol = symbol
           /\ \A i \in 1..Len(delivery.queue) : delivery.queue[i].symbol # symbol
           => /\ DeliveredRow(symbol) # <<>>
              /\ \E i \in 1..Len(delivery.frames) :
                     /\ delivery.frames[i].symbol = symbol
                     /\ \A j \in (i + 1)..Len(delivery.frames) :
                            delivery.frames[j].symbol # symbol
                     /\ DeliveredRow(symbol)[1].bid_price = delivery.frames[i].price
                     /\ DeliveredRow(symbol)[1].ask_price = delivery.frames[i].price

\* Two frames of one key at different prices have arrived and both have
\* been delivered, the second last.
C34_Witness ==
    /\ Len(delivery.frames) = 2
    /\ delivery.frames[1].symbol = delivery.frames[2].symbol
    /\ delivery.frames[1].price # delivery.frames[2].price
    /\ delivery.delivered = <<1, 2>>
    /\ call.op = "update"
    /\ call.arg.bid_price = delivery.frames[2].price
====
